---------------------------- MODULE Spec2Model ----------------------------
(***************************************************************************)
(* A model of cachy-chroot: the session orchestrator of src/src/main.rs,   *)
(* the identity matcher of src/src/block_device.rs, and the LUKS, BTRFS    *)
(* and ZFS lifecycle functions of src/src/luks.rs, src/src/btrfs.rs and    *)
(* src/src/zfs.rs.                                                         *)
(*                                                                         *)
(* Strings are sequences of one-character strings, so that strip_prefix,   *)
(* starts_with, split and format! are computed, not assumed.               *)
(* An Option<T> is a sequence: None is << >>, Some(v) is << v >>.          *)
(* An external command ("capability") returns "ok" (exit status 0) or      *)
(* "fail" (a failure status; the code's `is_err() || !success()` sends a   *)
(* command that could not be started down the same branch). Where the code *)
(* has `.join().expect(..)` instead (arch-chroot, the umount of teardown), *)
(* "err" is the command that could not be started, on which main panics.   *)
(***************************************************************************)
EXTENDS Integers, Sequences, FiniteSets, TLC

----------------------------------------------------------------------------
(* Bounds of the model *)

\* interactive-loop iterations a session may take
MaxIter == 1
\* entries of a mount table
MaxEntries == 2

----------------------------------------------------------------------------
(* Strings *)

None == << >>
Some(v) == << v >>

StartsWith(s, p) == Len(p) <= Len(s) /\ SubSeq(s, 1, Len(p)) = p

\* str::strip_prefix: Some(rest) when s starts with p, None otherwise
StripPrefix(s, p) ==
    IF StartsWith(s, p) THEN Some(SubSeq(s, Len(p) + 1, Len(s))) ELSE None

\* str::trim_start_matches(p): strips p as often as it leads s
RECURSIVE TrimStartMatches(_, _)
TrimStartMatches(s, p) ==
    IF p # << >> /\ StartsWith(s, p)
    THEN TrimStartMatches(SubSeq(s, Len(p) + 1, Len(s)), p)
    ELSE s

\* str::split(c): the pieces of s between occurrences of the character c
RECURSIVE Split(_, _)
Split(s, c) ==
    IF \A i \in 1..Len(s) : s[i] # c THEN << s >>
    ELSE LET i == CHOOSE k \in 1..Len(s) : s[k] = c /\ \A j \in 1..(k - 1) : s[j] # c
         IN  << SubSeq(s, 1, i - 1) >> \o Split(SubSeq(s, i + 1, Len(s)), c)

DigitChar(d) ==
    CASE d = 0 -> "0" [] d = 1 -> "1" [] d = 2 -> "2" [] d = 3 -> "3" [] d = 4 -> "4"
      [] d = 5 -> "5" [] d = 6 -> "6" [] d = 7 -> "7" [] d = 8 -> "8" [] d = 9 -> "9"

\* format!("{}", n) of an unsigned integer
RECURSIVE FormatNat(_)
FormatNat(n) ==
    IF n < 10 THEN << DigitChar(n) >> ELSE FormatNat(n \div 10) \o << DigitChar(n % 10) >>

IsDigit(c) == c \in {"0", "1", "2", "3", "4", "5", "6", "7", "8", "9"}

DigitVal(c) == CHOOSE d \in 0..9 : DigitChar(d) = c

\* str::parse::<usize>(): Some(n) for a non-empty run of digits, None (Err) otherwise
RECURSIVE ParseDigits(_, _)
ParseDigits(s, acc) ==
    IF s = << >> THEN acc ELSE ParseDigits(Tail(s), acc * 10 + DigitVal(Head(s)))

ParseUsize(s) ==
    IF s # << >> /\ \A i \in 1..Len(s) : IsDigit(s[i]) THEN Some(ParseDigits(s, 0)) ELSE None

\* the prefixes matches_fstab_entry knows
PfxUUID == << "U", "U", "I", "D", "=" >>
PfxByUuid ==
    << "/", "d", "e", "v", "/", "d", "i", "s", "k", "/", "b", "y", "-", "u", "u", "i", "d", "/" >>
PfxPARTUUID == << "P", "A", "R", "T", "U", "U", "I", "D", "=" >>
PfxByPartUuid ==
    << "/", "d", "e", "v", "/", "d", "i", "s", "k", "/", "b", "y", "-",
       "p", "a", "r", "t", "u", "u", "i", "d", "/" >>
PfxLABEL == << "L", "A", "B", "E", "L", "=" >>
PfxPARTLABEL == << "P", "A", "R", "T", "L", "A", "B", "E", "L", "=" >>

----------------------------------------------------------------------------
(* Block devices (src/src/block_device.rs) *)

FsExt4 == << "e", "x", "t", "4" >>
FsBtrfs == << "b", "t", "r", "f", "s" >>
FsLuks == << "c", "r", "y", "p", "t", "o", "_", "L", "U", "K", "S" >>
FsZfs == << "z", "f", "s", "_", "m", "e", "m", "b", "e", "r" >>

BlockDevice(name, fs_type, uuid, partuuid, label, partlabel) ==
    [name |-> name, fs_type |-> fs_type, uuid |-> uuid,
     partuuid |-> partuuid, label |-> label, partlabel |-> partlabel]

\* BlockDevice::get_id
DeviceGetId(self) ==
    IF self.fs_type = FsZfs /\ self.label # None THEN self.label[1] ELSE self.uuid

\* BlockDevice::matches_fstab_entry. A let-chain `if let Some(p) = strip && let
\* Some(a) = attr` whose second pattern fails falls to the next else-if and in
\* the end to the comparison with the name.
MatchesFstabEntry(self, id) ==
    IF StripPrefix(id, PfxUUID) # None
    THEN StripPrefix(id, PfxUUID)[1] = self.uuid
    ELSE IF StripPrefix(id, PfxByUuid) # None
    THEN StripPrefix(id, PfxByUuid)[1] = self.uuid
    ELSE IF StripPrefix(id, PfxPARTUUID) # None /\ self.partuuid # None
    THEN StripPrefix(id, PfxPARTUUID)[1] = self.partuuid[1]
    ELSE IF StripPrefix(id, PfxByPartUuid) # None /\ self.partuuid # None
    THEN StripPrefix(id, PfxByPartUuid)[1] = self.partuuid[1]
    ELSE IF StripPrefix(id, PfxLABEL) # None /\ self.label # None
    THEN StripPrefix(id, PfxLABEL)[1] = self.label[1]
    ELSE IF StripPrefix(id, PfxPARTLABEL) # None /\ self.partlabel # None
    THEN StripPrefix(id, PfxPARTLABEL)[1] = self.partlabel[1]
    ELSE id = self.name


----------------------------------------------------------------------------
(* BTRFS subvolumes (src/src/btrfs.rs) *)

BTRFSSubVolume(device, subvolume_id, subvolume_name) ==
    [device |-> device, subvolume_id |-> subvolume_id, subvolume_name |-> subvolume_name]

\* BTRFSSubVolume::get_id: format!("{}-{}", device.get_id(), subvolume_id)
SubvolGetId(self) == DeviceGetId(self.device) \o << "-" >> \o FormatNat(self.subvolume_id)

\* str::split_whitespace with the one whitespace character the listings hold
SplitWhitespace(line) == SelectSeq(Split(line, " "), LAMBDA f : f # << >>)

DotSnapshots == << ".", "s", "n", "a", "p", "s", "h", "o", "t", "s" >>

\* the id of the implicit root subvolume that list_subvolumes seeds
RootSubvolId == 5

\* The loop of list_subvolumes over subvolume_lines[2..]: a row of four fields
\* is pushed with its id parsed (unwrap: a panic when it does not parse) unless
\* it is a filtered snapshot. The result is [panic, subvolumes].
RECURSIVE ParseSubvolumeLines(_, _, _, _)
ParseSubvolumeLines(device, lines, include_dot_snapshots, acc) ==
    IF lines = << >> THEN [panic |-> FALSE, subvolumes |-> acc]
    ELSE LET parts == SplitWhitespace(Head(lines)) IN
         IF Len(parts) # 4
         THEN ParseSubvolumeLines(device, Tail(lines), include_dot_snapshots, acc)
         ELSE IF StartsWith(parts[4], DotSnapshots) /\ ~include_dot_snapshots
         THEN ParseSubvolumeLines(device, Tail(lines), include_dot_snapshots, acc)
         ELSE IF ParseUsize(parts[1]) = None
         THEN [panic |-> TRUE, subvolumes |-> acc]
         ELSE ParseSubvolumeLines(device, Tail(lines), include_dot_snapshots,
                  Append(acc, BTRFSSubVolume(device, ParseUsize(parts[1])[1], parts[4])))

\* The parsing half of list_subvolumes: the listing is cut after its two
\* header lines (a listing of fewer lines panics at subvolume_lines[2..]).
ParseSubvolumeListing(device, lines, include_dot_snapshots) ==
    IF Len(lines) < 2 THEN [panic |-> TRUE, subvolumes |-> << >>]
    ELSE ParseSubvolumeLines(device, SubSeq(lines, 3, Len(lines)), include_dot_snapshots,
             << BTRFSSubVolume(device, RootSubvolId, << "/" >>) >>)

\* One capability call as the outside world sees it. dup tells what held when
\* the call was issued: for a mount, that the identity was in
\* mounted_partitions; for a close, that something mounted lived on the
\* mapping; for an export, that a key of the pool was loaded. asked tells that
\* continue_on_mount_failure was put to the user after the call (Asked).
Call(op, dev, id, mp, ok, dup, phase) ==
    [op |-> op, dev |-> dev, id |-> id, mp |-> mp, ok |-> ok, dup |-> dup, phase |-> phase,
     asked |-> FALSE]

\* the call after which continue_on_mount_failure was put to the user
Asked(call, asked) == [call EXCEPT !.asked = asked]

TmpMountPrefix == << "/", "t", "-" >>

\* the scoped temporary mount point of list_subvolumes
TmpMountPoint(device) == TmpMountPrefix \o device.uuid

Mount(device, mp, subvolid) == [dev |-> device.name, mp |-> mp, subvolid |-> subvolid]

\* list_subvolumes(device, include_dot_snapshots) under the outcomes of its three
\* capability calls: the temporary mount (gracefully_fail = false: a failure
\* exits), the listing, and the unmount, reached only when nothing before it
\* left the function. status is "ok", "exit" (print_error_and_exit) or "panic";
\* leaked holds the temporary mount when it is still mounted afterwards; kept
\* holds the temporary directory, which tmp_dir.keep() (line 40) takes out of
\* the scope that would remove it and which nothing removes afterwards.
ListSubvolumes(device, include_dot_snapshots, mount_ok, lines, umount_ok, dup, phase) ==
    LET mnt == Mount(device, TmpMountPoint(device), None)
        mcall == Call("mount", device.name, DeviceGetId(device), TmpMountPoint(device),
                      mount_ok, dup, phase)
        lcall == Call("list", device.name, DeviceGetId(device), TmpMountPoint(device),
                      TRUE, FALSE, phase)
        ucall == Call("umount", device.name, DeviceGetId(device), TmpMountPoint(device),
                      umount_ok, FALSE, phase)
        parsed == ParseSubvolumeListing(device, lines, include_dot_snapshots)
        kept == { TmpMountPoint(device) }
    IN  IF ~mount_ok
        THEN [status |-> "exit", subvolumes |-> << >>, leaked |-> {}, kept |-> kept,
              calls |-> << mcall >>]
        ELSE IF parsed.panic
        THEN [status |-> "panic", subvolumes |-> << >>, leaked |-> {mnt}, kept |-> kept,
              calls |-> << mcall, lcall >>]
        ELSE [status |-> "ok", subvolumes |-> parsed.subvolumes,
              leaked |-> IF umount_ok THEN {} ELSE {mnt}, kept |-> kept,
              calls |-> << mcall, lcall, ucall >>]

SubvolAt == << "@" >>

\* the partition name main passes for the root device
RoleRoot == << "r", "o", "o", "t" >>

\* a selection policy that always hands the choice to the picker
SelectSubvolumeByPicker(known_subvolumes, device_name, use_preset, pick) ==
    known_subvolumes[pick]

\* The selection policy of get_btrfs_subvolume over the known subvolumes:
\* use_preset is the answer to use_cachyos_btrfs_preset (asked only when a
\* subvolume named @ exists), pick the index the external picker returns.
SelectSubvolume(known_subvolumes, device_name, use_preset, pick) ==
    IF Len(known_subvolumes) = 1 THEN known_subvolumes[1]
    ELSE IF device_name = RoleRoot
    THEN IF (\E i \in 1..Len(known_subvolumes) : known_subvolumes[i].subvolume_name = SubvolAt)
            /\ use_preset
         THEN known_subvolumes[CHOOSE i \in 1..Len(known_subvolumes) :
                  /\ known_subvolumes[i].subvolume_name = SubvolAt
                  /\ \A j \in 1..(i - 1) : known_subvolumes[j].subvolume_name # SubvolAt]
         ELSE known_subvolumes[pick]
    ELSE known_subvolumes[pick]

PromptPreset == "use_cachyos_btrfs_preset"
PromptPicker == "get_btrfs_subvolume"

\* a selection policy that opens the picker whatever the list holds
SelectPromptsAlwaysPicker(known_subvolumes, device_name, use_preset) ==
    << PromptPicker >>

\* The requests the selection policy of get_btrfs_subvolume (lines 92-106)
\* puts to the user, in order: none for a list of one subvolume; for the role
\* "root" and a list holding "@" the preset confirmation, followed by the picker
\* when it is declined; the picker otherwise.
SelectPrompts(known_subvolumes, device_name, use_preset) ==
    IF Len(known_subvolumes) = 1 THEN << >>
    ELSE IF device_name = RoleRoot
    THEN IF \E i \in 1..Len(known_subvolumes) : known_subvolumes[i].subvolume_name = SubvolAt
         THEN IF use_preset THEN << PromptPreset >> ELSE << PromptPreset, PromptPicker >>
         ELSE << PromptPicker >>
    ELSE << PromptPicker >>

\* get_btrfs_subvolume, lines 85-90: the device is not in the cache; ls is what
\* list_subvolumes returned, which is inserted under device.uuid
CacheMiss(device, cache, ls) ==
    IF ls.status # "ok"
    THEN [status |-> ls.status, cache |-> cache, known |-> << >>, leaked |-> ls.leaked,
          calls |-> ls.calls]
    ELSE [status |-> "ok",
          cache |-> [u \in DOMAIN cache \cup {device.uuid} |->
                        IF u = device.uuid THEN ls.subvolumes ELSE cache[u]],
          known |-> ls.subvolumes,
          leaked |-> ls.leaked,
          calls |-> ls.calls]

\* get_btrfs_subvolume that lists the subvolumes without looking at the cache
GetBtrfsSubvolumeNoCache(device, cache, show_btrfs_dot_snapshots, device_name, ch, dup, phase) ==
    CacheMiss(device, cache,
        ListSubvolumes(device, show_btrfs_dot_snapshots, ch.mount_ok, ch.lines, ch.umount_ok,
                       dup, phase))

\* get_btrfs_subvolume, lines 79-91, under the choices ch of the outside world:
\* ch.mount_ok, ch.lines and ch.umount_ok are the outcomes of list_subvolumes's
\* calls (made only on a cache miss). The cache is keyed by device.uuid; known
\* is the list the selection policy then works on.
GetBtrfsSubvolume(device, cache, show_btrfs_dot_snapshots, device_name, ch, dup, phase) ==
    IF device.uuid \in DOMAIN cache
    THEN [status |-> "ok", cache |-> cache, known |-> cache[device.uuid], leaked |-> {},
          calls |-> << >>]
    ELSE CacheMiss(device, cache,
             ListSubvolumes(device, show_btrfs_dot_snapshots, ch.mount_ok, ch.lines,
                            ch.umount_ok, dup, phase))

\* mount_block_device that asks continue_on_mount_failure whatever
\* gracefully_fail says
MountBlockDeviceGraceful(gracefully_fail, mount_ok, skip) ==
    IF mount_ok THEN "mounted"
    ELSE IF skip THEN "skipped"
    ELSE "exit"

\* mount_block_device: "mounted" (true), "skipped" (false: the mount failed,
\* gracefully_fail is set and the user answered continue_on_mount_failure with
\* yes) or "exit" (print_error_and_exit).
MountBlockDevice(gracefully_fail, mount_ok, skip) ==
    IF mount_ok THEN "mounted"
    ELSE IF gracefully_fail /\ skip THEN "skipped"
    ELSE "exit"

----------------------------------------------------------------------------
(* LUKS (src/src/luks.rs) *)

LuksPrefix == << "l", "u", "k", "s", "-" >>

\* format!("luks-{}", device.uuid), the mapped name open_device creates (line 12)
MappedName(device) == LuksPrefix \o device.uuid

\* a close_device that names the mapping after the device
CloseMappedNameOfDevice(device) == LuksPrefix \o device.name

\* format!("luks-{}", device.uuid), the mapped name close_device closes (line 26)
CloseMappedName(device) == LuksPrefix \o device.uuid

----------------------------------------------------------------------------
(* The machine the session runs on *)

DevPrefix == << "/", "d", "e", "v", "/" >>
MapperPrefix == DevPrefix \o << "m", "a", "p", "p", "e", "r", "/" >>

DevExt == BlockDevice(DevPrefix \o << "a" >>, FsExt4, << "u", "1" >>, Some(<< "p", "1" >>),
                      Some(<< "b", "o", "o", "t" >>), None)
DevBtr == BlockDevice(DevPrefix \o << "b" >>, FsBtrfs, << "u", "2" >>, Some(<< "p", "2" >>),
                      None, None)
DevLuks == BlockDevice(DevPrefix \o << "c" >>, FsLuks, << "u", "3" >>, Some(<< "p", "3" >>),
                       None, None)
DevZa == BlockDevice(DevPrefix \o << "y" >>, FsZfs, << "u", "5" >>, Some(<< "p", "5" >>),
                     Some(<< "z", "a" >>), None)
DevZb == BlockDevice(DevPrefix \o << "z" >>, FsZfs, << "u", "6" >>, Some(<< "p", "6" >>),
                     Some(<< "z", "b" >>), None)
\* a second encrypted container
DevLuks2 == BlockDevice(DevPrefix \o << "d" >>, FsLuks, << "u", "7" >>, Some(<< "p", "7" >>),
                        None, None)
\* the decrypted mapping of DevLuks, visible while it is open
DevMap == BlockDevice(MapperPrefix \o MappedName(DevLuks), FsExt4, << "u", "4" >>, None,
                      None, None)
\* the decrypted mapping of DevLuks2, visible while it is open
DevMap2 == BlockDevice(MapperPrefix \o MappedName(DevLuks2), FsExt4, << "u", "8" >>, None,
                       None, None)

\* the encrypted container a mapping device lives on
BackingOf(name) ==
    IF name = DevMap.name THEN Some(MappedName(DevLuks))
    ELSE IF name = DevMap2.name THEN Some(MappedName(DevLuks2))
    ELSE None

\* lsblk, given the mapped names that are open
Lsblk(luks) ==
    << DevExt, DevBtr, DevLuks, DevLuks2, DevZa, DevZb >>
        \o (IF MappedName(DevLuks) \in luks THEN << DevMap >> ELSE << >>)
        \o (IF MappedName(DevLuks2) \in luks THEN << DevMap2 >> ELSE << >>)

InSeq(s, x) == \E i \in 1..Len(s) : s[i] = x

\* a list_block_devices that filters nothing out
ListBlockDevicesUnfiltered(ignored_devices, luks) == Lsblk(luks)

\* list_block_devices(ignored_devices)
ListBlockDevices(ignored_devices, luks) ==
    IF ignored_devices = << >> THEN Lsblk(luks)
    ELSE SelectSeq(Lsblk(luks), LAMBDA d : ~InSeq(ignored_devices, d))

Hdr1 == << "I", "D", " ", "g", "e", "n", " ", "t", "o", "p", " ", "p", "a", "t", "h" >>
Hdr2 == << "-", "-", " ", "-", "-", " ", "-", "-", " ", "-", "-" >>
LineAt == << "2", "5", "6", " ", "9", " ", "5", " ", "@" >>
LineHome == << "2", "5", "7", " ", "9", " ", "5", " ", "@", "h", "o", "m", "e" >>
LineSnap == << "2", "5", "8", " ", "9", " ", "5", " " >> \o DotSnapshots
LineBadId == << "x", " ", "9", " ", "5", " ", "@" >>

\* what `btrfs subvolume list -t` may print for a device, as the lines left by
\* trim().split('\n'): a full table, a table of the headers only, a table with
\* a row whose id is no number, and no output at all (one empty line).
ListingFull == << Hdr1, Hdr2, LineAt, LineHome, LineSnap >>

ListingOutputs ==
    { ListingFull,
      << Hdr1, Hdr2 >>,
      << Hdr1, Hdr2, LineBadId >>,
      << << >> >> }

\* the outcomes of the three capability calls of one list_subvolumes: the
\* temporary mount fails, or it succeeds and the listing is one of the outputs;
\* the unmount of the temporary mount succeeds
ListingChoices ==
    { [mount_ok |-> FALSE, lines |-> << << >> >>, umount_ok |-> TRUE] }
        \cup { [mount_ok |-> TRUE, lines |-> l, umount_ok |-> TRUE] : l \in ListingOutputs }

\* the outcome of a mount call and the answer to continue_on_mount_failure
\* (asked only after a failed mount)
MountAnswers ==
    { [mount_ok |-> TRUE, skip |-> FALSE], [mount_ok |-> FALSE, skip |-> TRUE],
      [mount_ok |-> FALSE, skip |-> FALSE] }

RootMountPoint == << "/", "r" >>

----------------------------------------------------------------------------
(* The session (src/src/main.rs) *)

VARIABLES
    pc,                           \* where main is
    exit_cause,                   \* the function that ended the process, once it has
    args,                         \* the parsed command line
    block_devices,
    selected_device,              \* Option<BlockDevice>
    opened_luks_devices,
    mounted_partitions,           \* MountedSet
    discovered_btrfs_subvolumes,  \* uuid -> subvolumes
    has_luks_on_root,
    root_subvolid,                \* Option: the subvolid= of root_mount_options
    crypttab_entries,
    entries,                      \* the entries of the mount table
    entry_idx,
    mount_point,                  \* the mount point of the interactive iteration
    iter,                         \* interactive iterations started
    td_idx,                       \* position of the teardown loops
    zfs_queue,                    \* the datasets the ZFS steps still have to handle
    chroot_result,                \* "none" until arch-chroot has returned
    imported_pools,
    loaded_keys,
    sys_mounts,                   \* what is mounted
    sys_luks,                     \* the mapped names that are open
    sys_pools,                    \* the pools that are imported
    sys_keys,                     \* the datasets whose key is loaded
    step_calls,                   \* the capability calls of the latest step
    td_log,                       \* the teardown calls so far
    phases,                       \* the phases entered so far
    planner_pass,                 \* which pass of the mount planner runs
    pass1_failed,                 \* identities whose mount failed in the first pass
    m_entity, m_ref, m_result     \* a function applied on its own: two inputs and the result

progVars ==
    << args, block_devices, selected_device, opened_luks_devices, mounted_partitions,
       discovered_btrfs_subvolumes, has_luks_on_root, root_subvolid, crypttab_entries,
       entries, entry_idx, mount_point, iter, td_idx, zfs_queue, chroot_result,
       imported_pools, loaded_keys >>
sysVars == << sys_mounts, sys_luks, sys_pools, sys_keys >>
ghostVars == << step_calls, td_log, phases, planner_pass, pass1_failed >>
matchVars == << m_entity, m_ref, m_result >>
vars == << pc, exit_cause, progVars, sysVars, ghostVars, matchVars >>

EmptyMap == [u \in {} |-> << >>]

\* the locals of main and the machine before main's first step
Fresh ==
    /\ exit_cause = "none"
    /\ block_devices = << >>
    /\ selected_device = None
    /\ opened_luks_devices = << >>
    /\ mounted_partitions = << >>
    /\ discovered_btrfs_subvolumes = EmptyMap
    /\ has_luks_on_root = FALSE
    /\ root_subvolid = None
    /\ crypttab_entries = EmptyMap
    /\ entries = << >>
    /\ entry_idx = 1
    /\ mount_point = << >>
    /\ iter = 0
    /\ td_idx = 1
    /\ zfs_queue = << >>
    /\ chroot_result = "none"
    /\ imported_pools = << >>
    /\ loaded_keys = {}
    /\ sys_mounts = {}
    /\ sys_luks = {}
    /\ sys_pools = {}
    /\ sys_keys = {}
    /\ step_calls = << >>
    /\ td_log = << >>
    /\ phases = << >>
    /\ planner_pass = 1
    /\ pass1_failed = {}

\* the state of main before its first step
SessionInit ==
    /\ pc = "start"
    /\ args \in [show_btrfs_dot_snapshots : {FALSE}, no_auto_mount : BOOLEAN]
    /\ Fresh

Init ==
    /\ SessionInit
    /\ m_entity = None /\ m_ref = None /\ m_result = None

\* whether the session hands the device to the dataset steps
IsPoolMember(device) == device.fs_type = FsZfs

\* the devices offered for the root: main.rs under src/ has no dataset steps
\* for a root, so a session starts from a device that is not a pool member
RootCandidates(devices) == { i \in 1..Len(devices) : ~IsPoolMember(devices[i]) }

\* the process ends: print_error_and_exit (or a panic) in function f
Exit(f) == pc' = "exited" /\ exit_cause' = f

EnterPhase(p) == phases' = IF InSeq(phases, p) THEN phases ELSE Append(phases, p)

\* main goes from the selection of the root straight to the mount table
AfterRootSelectSkipRoot(device) == "read_tables"

\* main, lines 200 and 209: where main goes with the selected root
AfterRootSelect(device) == IF device.fs_type = FsLuks THEN "root_open" ELSE "root_resolve"

\* main, lines 179-198: the devices are listed and the root device is selected
SelectRoot ==
    /\ pc = "start"
    /\ LET listed == ListBlockDevices(<< >>, sys_luks) IN
       /\ block_devices' = listed
       /\ IF Len(listed) = 0
          THEN /\ Exit("main") /\ UNCHANGED << selected_device, phases >>
          ELSE \E i \in RootCandidates(listed) :
                  /\ selected_device' = Some(listed[i])
                  /\ pc' = AfterRootSelect(listed[i])
                  /\ exit_cause' = exit_cause
                  /\ EnterPhase("SelectRoot")
    /\ step_calls' = << >>
    /\ UNCHANGED << args, opened_luks_devices, mounted_partitions, discovered_btrfs_subvolumes,
                    has_luks_on_root, root_subvolid, crypttab_entries, entries, entry_idx,
                    mount_point, iter, td_idx, zfs_queue, chroot_result, imported_pools,
                    loaded_keys >>
    /\ UNCHANGED << sysVars, td_log, planner_pass, pass1_failed, matchVars >>

\* main, lines 200-207: the selected root is an encrypted container; it is
\* opened (luks::open_device exits when the open fails), the devices are listed
\* again without the opened ones and the root is selected again
RootOpenLuks ==
    /\ pc = "root_open"
    /\ has_luks_on_root' = TRUE
    /\ LET device == selected_device[1] IN
       \E open_ok \in BOOLEAN :
          /\ step_calls' = << Call("luksOpen", device.name, MappedName(device), None,
                                   open_ok, FALSE, "OpenEncryption") >>
          /\ EnterPhase("OpenEncryption")
          /\ IF ~open_ok
             THEN /\ Exit("open_device")
                  /\ UNCHANGED << sys_luks, opened_luks_devices, block_devices, selected_device >>
             ELSE /\ sys_luks' = sys_luks \cup {MappedName(device)}
                  /\ opened_luks_devices' = Append(opened_luks_devices, device)
                  /\ block_devices' = ListBlockDevices(opened_luks_devices', sys_luks')
                  /\ \E j \in RootCandidates(block_devices') :
                        selected_device' = Some(block_devices'[j])
                  /\ pc' = "root_resolve"
                  /\ exit_cause' = exit_cause
    /\ UNCHANGED << args, mounted_partitions, discovered_btrfs_subvolumes, root_subvolid,
                    crypttab_entries, entries, entry_idx, mount_point, iter, td_idx,
                    zfs_queue, chroot_result, imported_pools, loaded_keys >>
    /\ UNCHANGED << sys_mounts, sys_pools, sys_keys, td_log, planner_pass, pass1_failed,
                    matchVars >>

\* main, lines 216-219: the identity of the root subvolume is pushed
RootSubvolume(sv) ==
    /\ mounted_partitions' = Append(mounted_partitions, SubvolGetId(sv))
    /\ root_subvolid' = Some(sv.subvolume_id)
    /\ pc' = "root_mount"
    /\ exit_cause' = exit_cause

\* main, lines 210-219: r is the outcome of the cache lookup of
\* get_btrfs_subvolume for the root
RootResolved(r, use_preset) ==
    /\ step_calls' = r.calls
    /\ sys_mounts' = sys_mounts \cup r.leaked
    /\ discovered_btrfs_subvolumes' = r.cache
    /\ EnterPhase("ResolveSubvolume")
    /\ IF r.status # "ok"
       THEN /\ Exit(IF r.status = "exit" THEN "mount_block_device" ELSE "list_subvolumes")
            /\ UNCHANGED << mounted_partitions, root_subvolid >>
       ELSE \E pick \in 1..Len(r.known) :
               RootSubvolume(SelectSubvolume(r.known, RoleRoot, use_preset, pick))

\* main, lines 209-223: a BTRFS root has its subvolume resolved; the identity
\* of what will be mounted is pushed to mounted_partitions before the mount
RootResolve ==
    /\ pc = "root_resolve"
    /\ LET device == selected_device[1] IN
       IF device.fs_type = FsBtrfs
       THEN \E ch \in ListingChoices, use_preset \in BOOLEAN :
               RootResolved(GetBtrfsSubvolume(device, discovered_btrfs_subvolumes,
                                args.show_btrfs_dot_snapshots, RoleRoot, ch, FALSE,
                                "ResolveSubvolume"),
                            use_preset)
       ELSE /\ mounted_partitions' = Append(mounted_partitions, DeviceGetId(device))
            /\ pc' = "root_mount"
            /\ step_calls' = << >>
            /\ UNCHANGED << exit_cause, sys_mounts, discovered_btrfs_subvolumes, root_subvolid,
                            phases >>
    /\ UNCHANGED << args, block_devices, selected_device, opened_luks_devices,
                    has_luks_on_root, crypttab_entries, entries, entry_idx, mount_point, iter,
                    td_idx, zfs_queue, chroot_result, imported_pools,
                    loaded_keys >>
    /\ UNCHANGED << sys_luks, sys_pools, sys_keys, td_log, planner_pass, pass1_failed,
                    matchVars >>

\* the identity main pushed for the root
RootIdentity == mounted_partitions[1]

\* main, lines 225-231: the root is mounted; gracefully_fail is false, and
\* main goes on whatever mount_block_device returns (skip is the answer the
\* user would give to continue_on_mount_failure)
RootMount ==
    /\ pc = "root_mount"
    /\ LET device == selected_device[1] IN
       \E mount_ok \in BOOLEAN, skip \in BOOLEAN :
          /\ step_calls' = << Call("mount", device.name, RootIdentity, RootMountPoint, mount_ok,
                                   InSeq(mounted_partitions, RootIdentity), "MountRoot") >>
          /\ EnterPhase("MountRoot")
          /\ IF MountBlockDevice(FALSE, mount_ok, skip) = "exit"
             THEN /\ Exit("mount_block_device")
                  /\ UNCHANGED sys_mounts
             ELSE /\ sys_mounts' =
                        IF MountBlockDevice(FALSE, mount_ok, skip) = "mounted"
                        THEN sys_mounts \cup {Mount(device, RootMountPoint, root_subvolid)}
                        ELSE sys_mounts
                  /\ pc' = "read_tables"
                  /\ exit_cause' = exit_cause
    /\ UNCHANGED << progVars, sys_luks, sys_pools, sys_keys, td_log, planner_pass,
                    pass1_failed, matchVars >>

----------------------------------------------------------------------------
(* The mount planner (src/src/main.rs, lines 233-356) *)

FstabEntry(fs_spec, mountpoint, vfs_type, mount_options) ==
    [fs_spec |-> fs_spec, mountpoint |-> mountpoint, vfs_type |-> vfs_type,
     mount_options |-> mount_options]

\* Iterator::find: the first element of s that satisfies P, as an Option
FindFirst(s, P(_)) ==
    IF \E i \in 1..Len(s) : P(s[i])
    THEN Some(s[CHOOSE i \in 1..Len(s) : P(s[i]) /\ \A j \in 1..(i - 1) : ~P(s[j])])
    ELSE None

\* HashMap::get
MapGet(m, k) == IF k \in DOMAIN m THEN Some(m[k]) ELSE None

\* Path::new(base).join(rel) for a base that does not end with a separator and
\* a rel that does not start with one; joining the empty path leaves the base
\* with a trailing separator
PathJoin(base, rel) == base \o << "/" >> \o rel

\* luks::list_crypttab_entries over the lines of the file (None: no file)
RECURSIVE CrypttabOfLines(_, _)
CrypttabOfLines(lines, acc) ==
    IF lines = << >> THEN acc
    ELSE LET line == Head(lines)
             parts == SplitWhitespace(line)
         IN  IF StartsWith(line, << "#" >>) \/ Len(parts) < 2
             THEN CrypttabOfLines(Tail(lines), acc)
             ELSE CrypttabOfLines(Tail(lines),
                      [k \in DOMAIN acc \cup {parts[1]} |->
                          IF k = parts[1] THEN TrimStartMatches(parts[2], PfxUUID)
                          ELSE acc[k]])

ListCrypttabEntries(file) == IF file = None THEN EmptyMap ELSE CrypttabOfLines(file[1], EmptyMap)

FsSwap == << "s", "w", "a", "p" >>
OptSubvolid == << "s", "u", "b", "v", "o", "l", "i", "d", "=" >>
OptSubvol == << "s", "u", "b", "v", "o", "l", "=" >>

\* main, lines 252-272: the device a mount-table entry names. [invalid, device]
ResolveFstabDevice(entry, devices, crypttab) ==
    IF StartsWith(entry.fs_spec, << "/", "d", "e", "v" >>)
    THEN LET crypttab_entry == MapGet(crypttab, entry.fs_spec) IN
         [invalid |-> FALSE,
          device |-> FindFirst(devices, LAMBDA d :
                         \/ crypttab_entry = Some(d.name)
                         \/ crypttab_entry = Some(d.uuid)
                         \/ d.name = entry.fs_spec)]
    ELSE LET fs_spec == Split(entry.fs_spec, "=") IN
         IF Len(fs_spec) # 2 THEN [invalid |-> TRUE, device |-> None]
         ELSE LET v == fs_spec[Len(fs_spec)] IN
              [invalid |-> FALSE,
               device |-> FindFirst(devices, LAMBDA d :
                              \/ d.uuid = v
                              \/ d.partuuid = Some(v)
                              \/ d.label = Some(v)
                              \/ d.partlabel = Some(v))]

\* the first element of s that satisfies P, or else the first element of s
FirstOrHead(s, P(_)) ==
    IF \E i \in 1..Len(s) : P(s[i])
    THEN Some(s[CHOOSE i \in 1..Len(s) : P(s[i]) /\ \A j \in 1..(i - 1) : ~P(s[j])])
    ELSE Some(s[1])

\* a selection that falls back to the first known subvolume when the entry
\* names none of the known ones
SelectFstabSubvolumeFallback(entry, known_subvolumes) ==
    LET idopt == FindFirst(entry.mount_options, LAMBDA o : StartsWith(o, OptSubvolid))
        nameopt == FindFirst(entry.mount_options, LAMBDA o : StartsWith(o, OptSubvol))
    IN  IF idopt # None
        THEN [panic |-> FALSE,
              subvolume |-> FirstOrHead(known_subvolumes, LAMBDA sv :
                                Some(sv.subvolume_id)
                                    = ParseUsize(TrimStartMatches(idopt[1], OptSubvolid)))]
        ELSE IF nameopt # None
        THEN [panic |-> FALSE,
              subvolume |-> FirstOrHead(known_subvolumes, LAMBDA sv :
                                \/ sv.subvolume_name = TrimStartMatches(nameopt[1], OptSubvol)
                                \/ << "/" >> \o sv.subvolume_name
                                      = TrimStartMatches(nameopt[1], OptSubvol))]
        ELSE [panic |-> FALSE, subvolume |-> Some(known_subvolumes[1])]

\* a selection that compares the value of subvol= with the names as it stands
SelectFstabSubvolumeExact(entry, known_subvolumes) ==
    LET nameopt == FindFirst(entry.mount_options, LAMBDA o : StartsWith(o, OptSubvol))
    IN  IF nameopt # None
        THEN [panic |-> FALSE,
              subvolume |-> FindFirst(known_subvolumes, LAMBDA sv :
                                sv.subvolume_name = TrimStartMatches(nameopt[1], OptSubvol))]
        ELSE [panic |-> FALSE, subvolume |-> Some(known_subvolumes[1])]

\* main, lines 293-320: the subvolume a BTRFS entry names among the known
\* ones. [panic, subvolume]: subvolid= decides when present (its value parsed
\* with unwrap), then subvol=, then the first known subvolume.
SelectFstabSubvolume(entry, known_subvolumes) ==
    LET idopt == FindFirst(entry.mount_options, LAMBDA o : StartsWith(o, OptSubvolid))
        nameopt == FindFirst(entry.mount_options, LAMBDA o : StartsWith(o, OptSubvol))
    IN  IF idopt # None /\ ParseUsize(TrimStartMatches(idopt[1], OptSubvolid)) = None
        THEN [panic |-> TRUE, subvolume |-> None]
        ELSE IF idopt # None
        THEN LET subvolume_id == ParseUsize(TrimStartMatches(idopt[1], OptSubvolid))[1] IN
             [panic |-> FALSE,
              subvolume |-> FindFirst(known_subvolumes,
                                LAMBDA sv : sv.subvolume_id = subvolume_id)]
        ELSE IF nameopt # None
        THEN LET subvolume_name == TrimStartMatches(nameopt[1], OptSubvol)
                 stripped == IF StripPrefix(subvolume_name, << "/" >>) = None THEN << >>
                             ELSE StripPrefix(subvolume_name, << "/" >>)[1]
             IN  [panic |-> FALSE,
                  subvolume |-> FindFirst(known_subvolumes, LAMBDA sv :
                                    \/ sv.subvolume_name = subvolume_name
                                    \/ stripped = sv.subvolume_name)]
        ELSE [panic |-> FALSE, subvolume |-> Some(known_subvolumes[1])]

\* What the planner leaves unchanged when it skips an entry or stops.
PlanResult(status, cause, mounted, cache, mounts, calls, failed) ==
    [status |-> status, cause |-> cause, mounted_partitions |-> mounted, cache |-> cache,
     mounts |-> mounts, calls |-> calls, failed |-> failed]

\* the check against mounted_partitions left out
NeverMounted(mounted, id) == FALSE

\* Vec::contains on mounted_partitions (main, lines 278, 330 and 381, 392)
AlreadyMounted(mounted, id) == InSeq(mounted, id)

\* the identity of what was mounted is not pushed to mounted_partitions
MountedWithoutPush(how, id, mnt, call, mounted, cache, leaked, calls) ==
    IF how = "exit"
    THEN PlanResult("exit", "mount_block_device", mounted, cache, leaked,
                    Append(calls, Asked(call, TRUE)), {})
    ELSE PlanResult("next", "none", mounted, cache,
                    IF how = "mounted" THEN leaked \cup {mnt} ELSE leaked,
                    Append(calls, Asked(call, how = "skipped")),
                    IF how = "skipped" THEN {id} ELSE {})

\* main, lines 330-353 and 396-410: what mount_block_device returned decides
\* whether the identity is pushed to mounted_partitions. These calls pass
\* gracefully_fail = true, so a failed mount is followed by
\* continue_on_mount_failure.
Mounted(how, id, mnt, call, mounted, cache, leaked, calls) ==
    IF how = "mounted"
    THEN PlanResult("next", "none", Append(mounted, id), cache, leaked \cup {mnt},
                    Append(calls, call), {})
    ELSE IF how = "skipped"
    THEN PlanResult("next", "none", mounted, cache, leaked,
                    Append(calls, Asked(call, TRUE)), {id})
    ELSE PlanResult("exit", "mount_block_device", mounted, cache, leaked,
                    Append(calls, Asked(call, TRUE)), {})

\* main, lines 330-349 and 392-407: the subvolume sv is mounted at mp with
\* -o subvolid= unless its identity is in mounted_partitions
MountSubvolume(sv, mp, mounted, cache, leaked, calls, mount_ok, skip, phase) ==
    IF AlreadyMounted(mounted, SubvolGetId(sv))
    THEN PlanResult("next", "none", mounted, cache, leaked, calls, {})
    ELSE Mounted(MountBlockDevice(TRUE, mount_ok, skip), SubvolGetId(sv),
                 Mount(sv.device, mp, Some(sv.subvolume_id)),
                 Call("mount", sv.device.name, SubvolGetId(sv), mp, mount_ok,
                      InSeq(mounted, SubvolGetId(sv)), phase),
                 mounted, cache, leaked, calls)

\* main, lines 293-337: sel is the subvolume the entry names
PlanSelected(sel, mp, mounted, cache, leaked, calls, mount_ok, skip, phase) ==
    IF sel.panic THEN PlanResult("panic", "main", mounted, cache, leaked, calls, {})
    ELSE IF sel.subvolume = None
    THEN PlanResult("next", "none", mounted, cache, leaked, calls, {})
    ELSE MountSubvolume(sel.subvolume[1], mp, mounted, cache, leaked, calls, mount_ok, skip,
                        phase)

\* main, lines 286-337: r is the outcome of the cache lookup for a BTRFS device
PlanSubvolume(entry, r, mp, mounted, mount_ok, skip, phase) ==
    IF r.status # "ok"
    THEN PlanResult(r.status,
                    IF r.status = "exit" THEN "mount_block_device" ELSE "list_subvolumes",
                    mounted, r.cache, r.leaked, r.calls, {})
    ELSE PlanSelected(SelectFstabSubvolume(entry, r.known), mp, mounted, r.cache, r.leaked,
                      r.calls, mount_ok, skip, phase)

\* main, lines 278-353: the entry resolved to device, to be mounted at mp
PlanDevice(entry, device, mp, mounted, cache, show, ch, mount_ok, skip, phase) ==
    IF AlreadyMounted(mounted, DeviceGetId(device))
    THEN PlanResult("next", "none", mounted, cache, {}, << >>, {})
    ELSE IF device.fs_type = FsBtrfs
    THEN PlanSubvolume(entry,
             GetBtrfsSubvolume(device, cache, show, << >>, ch,
                               InSeq(mounted, DeviceGetId(device)), phase),
             mp, mounted, mount_ok, skip, phase)
    ELSE Mounted(MountBlockDevice(TRUE, mount_ok, skip), DeviceGetId(device),
                 Mount(device, mp, None),
                 Call("mount", device.name, DeviceGetId(device), mp, mount_ok,
                      InSeq(mounted, DeviceGetId(device)), phase),
                 mounted, cache, {}, << >>)

\* main, lines 273-277: res is what the entry's fs_spec resolved to
PlanResolved(entry, res, mounted, cache, show, ch, mount_ok, skip, phase) ==
    IF res.invalid \/ res.device = None
    THEN PlanResult("next", "none", mounted, cache, {}, << >>, {})
    ELSE PlanDevice(entry, res.device[1],
                    PathJoin(RootMountPoint, TrimStartMatches(entry.mountpoint, << "/" >>)),
                    mounted, cache, show, ch, mount_ok, skip, phase)

\* main, lines 248-354: one iteration of the loop over the mount table. ch
\* holds the outcomes of a subvolume listing, mount_ok the outcome of the mount
\* call and skip the answer to continue_on_mount_failure. status is "next"
\* (the loop goes on), "exit" or "panic"; mounts are the mounts added, failed
\* the identities whose mount failed and was skipped.
PlanEntry(entry, devices, crypttab, mounted, cache, show, ch, mount_ok, skip, phase) ==
    IF entry.vfs_type = FsSwap
    THEN PlanResult("next", "none", mounted, cache, {}, << >>, {})
    ELSE PlanResolved(entry, ResolveFstabDevice(entry, devices, crypttab), mounted, cache,
                      show, ch, mount_ok, skip, phase)

\* the mount-table entries a root filesystem may hold
MpBoot == << "/", "b", "o", "o", "t" >>
MpHome == << "/", "h", "o", "m", "e" >>
OptDefaults == << "d", "e", "f", "a", "u", "l", "t", "s" >>

EntrySwap == FstabEntry(DevPrefix \o << "s" >>, << "n", "o", "n", "e" >>, FsSwap,
                        << OptDefaults >>)
EntryBoot == FstabEntry(DevExt.name, MpBoot, FsExt4, << OptDefaults >>)
EntryHome == FstabEntry(PfxUUID \o DevBtr.uuid, MpHome, FsBtrfs,
                        << OptDefaults, OptSubvol \o << "/", "@", "h", "o", "m", "e" >> >>)
EntryRootId == FstabEntry(PfxUUID \o DevBtr.uuid, << "/" >>, FsBtrfs,
                          << OptSubvolid \o << "2", "5", "6" >> >>)
EntryMissing == FstabEntry(PfxUUID \o << "u", "9" >>, MpHome, FsExt4, << OptDefaults >>)
EntryInvalid == FstabEntry(PfxLABEL \o << "a", "=", "b" >>, MpHome, FsExt4, << OptDefaults >>)
EntryAlias == FstabEntry(DevPrefix \o << "k" >>, MpBoot, FsExt4, << OptDefaults >>)
EntryBadId == FstabEntry(PfxUUID \o DevBtr.uuid, MpHome, FsBtrfs,
                         << OptSubvolid \o << "x" >> >>)

FstabEntries ==
    { EntrySwap, EntryBoot, EntryHome, EntryRootId, EntryMissing, EntryInvalid, EntryAlias }

\* the mount tables of at most MaxEntries entries
Tables == UNION { [1..n -> FstabEntries] : n \in 0..MaxEntries }

\* a key-alias table: a comment, a line of one field and an alias of /dev/k
\* for DevExt
CrypttabAlias ==
    Some(<< << "#", " ", "k" >>,
            << "k" >>,
            DevPrefix \o << "k", " " >> \o PfxUUID \o DevExt.uuid >>)

\* the key-alias tables a root filesystem may hold
CrypttabFiles == { None, CrypttabAlias }

\* the pairs of key-alias table and mount table the roots of a session hold
RootFiles ==
    { [crypttab |-> None, fstab |-> None],
      [crypttab |-> None, fstab |-> Some(<< >>)],
      [crypttab |-> None, fstab |-> Some(<< EntryBoot, EntryHome >>)],
      [crypttab |-> None, fstab |-> Some(<< EntrySwap, EntryRootId >>)],
      [crypttab |-> None, fstab |-> Some(<< EntryInvalid, EntryMissing >>)],
      [crypttab |-> None, fstab |-> Some(<< EntryBoot, EntryBadId >>)],
      [crypttab |-> CrypttabAlias, fstab |-> Some(<< EntryAlias, EntryBoot >>)] }

\* main, lines 233-247: the key-alias table and the mount table are read from
\* the mounted root; without a mount table, or with --no-auto-mount, the
\* planner does not run (and the key-alias table, which only the planner
\* looks at, is not kept)
ReadTables ==
    /\ pc = "read_tables"
    /\ \E files \in RootFiles :
          IF files.fstab = None \/ args.no_auto_mount
          THEN /\ entries' = << >>
               /\ crypttab_entries' = EmptyMap
               /\ pc' = "interactive"
               /\ UNCHANGED phases
          ELSE /\ entries' = files.fstab[1]
               /\ crypttab_entries' = ListCrypttabEntries(files.crypttab)
               /\ pc' = "fstab"
               /\ EnterPhase("AutoMountFromTable")
    /\ entry_idx' = 1
    /\ step_calls' = << >>
    /\ UNCHANGED << exit_cause, args, block_devices, selected_device, opened_luks_devices,
                    mounted_partitions, discovered_btrfs_subvolumes, has_luks_on_root,
                    root_subvolid, mount_point, iter, td_idx, zfs_queue, chroot_result,
                    imported_pools, loaded_keys >>
    /\ UNCHANGED << sysVars, td_log, planner_pass, pass1_failed, matchVars >>

PlannerPhase == IF planner_pass = 1 THEN "AutoMountFromTable" ELSE "SecondPass"

\* the effects of a PlanResult on the session
ApplyPlan(r) ==
    /\ mounted_partitions' = r.mounted_partitions
    /\ discovered_btrfs_subvolumes' = r.cache
    /\ sys_mounts' = sys_mounts \cup r.mounts
    /\ step_calls' = r.calls

\* the loop over the mount table goes on, or the process ends
PlannerApply(r) ==
    /\ ApplyPlan(r)
    /\ pass1_failed' = IF planner_pass = 1 THEN pass1_failed \cup r.failed ELSE pass1_failed
    /\ IF r.status = "next"
       THEN /\ entry_idx' = entry_idx + 1
            /\ UNCHANGED << pc, exit_cause >>
       ELSE /\ Exit(r.cause)
            /\ UNCHANGED entry_idx

\* main, lines 248-354: the planner handles the next entry of the mount table
FstabStep ==
    /\ pc = "fstab"
    /\ entry_idx <= Len(entries)
    /\ \E ch \in ListingChoices, ans \in MountAnswers :
          PlannerApply(PlanEntry(entries[entry_idx], block_devices, crypttab_entries,
                                 mounted_partitions, discovered_btrfs_subvolumes,
                                 args.show_btrfs_dot_snapshots, ch, ans.mount_ok, ans.skip,
                                 PlannerPhase))
    /\ UNCHANGED << args, block_devices, selected_device, opened_luks_devices,
                    has_luks_on_root, root_subvolid, crypttab_entries, entries, mount_point,
                    iter, td_idx, zfs_queue, chroot_result, imported_pools,
                    loaded_keys >>
    /\ UNCHANGED << sys_luks, sys_pools, sys_keys, td_log, phases, planner_pass, matchVars >>

\* main, line 355: the planner is through the mount table; the table and the
\* key-alias table go out of use
FstabDone ==
    /\ pc = "fstab"
    /\ entry_idx > Len(entries)
    /\ pc' = "interactive"
    /\ entries' = << >>
    /\ entry_idx' = 1
    /\ crypttab_entries' = EmptyMap
    /\ step_calls' = << >>
    /\ UNCHANGED << exit_cause, args, block_devices, selected_device, opened_luks_devices,
                    mounted_partitions, discovered_btrfs_subvolumes, has_luks_on_root,
                    root_subvolid, mount_point, iter, td_idx, zfs_queue, chroot_result,
                    imported_pools, loaded_keys >>
    /\ UNCHANGED << sysVars, td_log, phases, planner_pass, pass1_failed, matchVars >>

----------------------------------------------------------------------------
(* ZFS (src/src/zfs.rs) *)

SOn == << "o", "n" >>
SOff == << "o", "f", "f" >>
SNone == << "n", "o", "n", "e" >>
SPrompt == << "p", "r", "o", "m", "p", "t" >>
SYes == << "y", "e", "s" >>
SNo == << "n", "o" >>
SFilesystem == << "f", "i", "l", "e", "s", "y", "s", "t", "e", "m" >>
SAes == << "a", "e", "s" >>

ZFSDataSet(name, dataset_type, pool, canmount, encryption, keylocation, mounted, mountpoint) ==
    [name |-> name, dataset_type |-> dataset_type, pool |-> pool,
     properties |-> [canmount |-> canmount, encryption |-> encryption,
                     keylocation |-> keylocation, mounted |-> mounted,
                     mountpoint |-> mountpoint]]

\* u8::to_ascii_lowercase over the letters the property values hold
LowerChar(c) ==
    CASE c = "O" -> "o" [] c = "F" -> "f" [] c = "N" -> "n" [] c = "E" -> "e"
      [] c = "Y" -> "y" [] c = "S" -> "s" [] c = "P" -> "p" [] c = "R" -> "r"
      [] c = "M" -> "m" [] c = "T" -> "t" [] c = "I" -> "i" [] c = "L" -> "l"
      [] c = "K" -> "k" [] c = "U" -> "u"
      [] OTHER -> c

\* str::eq_ignore_ascii_case
EqIgnoreAsciiCase(a, b) ==
    Len(a) = Len(b) /\ \A i \in 1..Len(a) : LowerChar(a[i]) = LowerChar(b[i])

HasUnsupportedEncryption(ds) ==
    /\ ~EqIgnoreAsciiCase(ds.properties.keylocation, SNone)
    /\ ~EqIgnoreAsciiCase(ds.properties.keylocation, SPrompt)

IsEncrypted(ds) == ~EqIgnoreAsciiCase(ds.properties.encryption, SOff)

IsMountable(ds) ==
    /\ EqIgnoreAsciiCase(ds.dataset_type, SFilesystem)
    /\ ~EqIgnoreAsciiCase(ds.properties.canmount, SOff)
    /\ ~EqIgnoreAsciiCase(ds.properties.mountpoint, SNone)

IsMounted(ds) == EqIgnoreAsciiCase(ds.properties.mounted, SYes)

IsValidKeyRoot(ds) == EqIgnoreAsciiCase(ds.properties.keylocation, SPrompt)

\* a mark_as_mounted that leaves the flag as it is
MarkAsMountedNoop(ds) == ds

MarkAsMounted(ds) == [ds EXCEPT !.properties.mounted = SYes]

MarkAsUnmounted(ds) == [ds EXCEPT !.properties.mounted = SNo]

\* ZFSDataSet::get_id: format!("{}-{}", name, pool)
DatasetGetId(ds) == ds.name \o << "-" >> \o ds.pool

\* import_zfs_pool that forces the import without asking
ImportZfsPoolForced(device, import_ok, force, force_ok, phase) ==
    IF import_ok
    THEN [status |-> "ok",
          calls |-> << Call("import", device.name, DeviceGetId(device), None, import_ok,
                            FALSE, phase) >>]
    ELSE [status |-> IF force_ok THEN "ok" ELSE "exit",
          calls |-> << Call("import", device.name, DeviceGetId(device), None, import_ok,
                            FALSE, phase),
                       Call("import -f", device.name, DeviceGetId(device), None, force_ok,
                            FALSE, phase) >>]

\* import_zfs_pool: "ok" when the import or the accepted forced import
\* succeeds, "exit" otherwise; calls are the import calls issued
ImportZfsPool(device, import_ok, force, force_ok, phase) ==
    LET c1 == Call("import", device.name, DeviceGetId(device), None, import_ok, FALSE, phase)
        c2 == Call("import -f", device.name, DeviceGetId(device), None, force_ok, FALSE, phase)
    IN  IF import_ok THEN [status |-> "ok", calls |-> << c1 >>]
        ELSE IF force /\ force_ok THEN [status |-> "ok", calls |-> << c1, c2 >>]
        ELSE IF force THEN [status |-> "exit", calls |-> << c1, c2 >>]
        ELSE [status |-> "exit", calls |-> << c1 >>]

\* export_zfs_pool: "ok" when the export or the accepted forced export
\* succeeds; otherwise print_error_and_exit ends the process
ExportZfsPool(device, export_ok, force, force_ok, phase) ==
    LET c1 == Call("export", device.name, DeviceGetId(device), None, export_ok, FALSE, phase)
        c2 == Call("export -f", device.name, DeviceGetId(device), None, force_ok, FALSE, phase)
    IN  IF export_ok THEN [status |-> "ok", calls |-> << c1 >>]
        ELSE IF force /\ force_ok THEN [status |-> "ok", calls |-> << c1, c2 >>]
        ELSE IF force THEN [status |-> "exit", calls |-> << c1, c2 >>]
        ELSE [status |-> "exit", calls |-> << c1 >>]

\* unload_zfs_key: a failure is logged; the function returns either way
UnloadZfsKey(dataset, unload_ok, phase) ==
    [status |-> "ok",
     calls |-> << Call("unload-key", dataset, dataset, None, unload_ok, FALSE, phase) >>]

\* mount_zfs_dataset without its test of the mount-state flag
MountZfsDatasetNoCheck(dataset, gracefully_fail, mount_ok, skip) ==
    IF mount_ok
    THEN [status |-> "ok", dataset |-> MarkAsMounted(dataset), called |-> TRUE,
          prompted |-> FALSE]
    ELSE [status |-> IF gracefully_fail /\ skip THEN "ok" ELSE "exit", dataset |-> dataset,
          called |-> TRUE, prompted |-> gracefully_fail]

\* mount_zfs_dataset: [status, dataset, called, prompted]. An already mounted
\* dataset is returned as it is, with no call. called tells that `zfs mount`
\* was run, prompted that continue_on_mount_failure was asked (after a failed
\* mount with gracefully_fail set; skip is its answer).
MountZfsDataset(dataset, gracefully_fail, mount_ok, skip) ==
    IF IsMounted(dataset)
    THEN [status |-> "ok", dataset |-> dataset, called |-> FALSE, prompted |-> FALSE]
    ELSE IF mount_ok
    THEN [status |-> "ok", dataset |-> MarkAsMounted(dataset), called |-> TRUE,
          prompted |-> FALSE]
    ELSE IF gracefully_fail /\ skip
    THEN [status |-> "ok", dataset |-> dataset, called |-> TRUE, prompted |-> TRUE]
    ELSE [status |-> "exit", dataset |-> dataset, called |-> TRUE,
          prompted |-> gracefully_fail]

\* unmount_zfs_dataset that takes the unmount for done
UnmountZfsDatasetUnconfirmed(dataset, unmount_ok) == MarkAsUnmounted(dataset)

\* unmount_zfs_dataset
UnmountZfsDataset(dataset, unmount_ok) ==
    IF unmount_ok THEN MarkAsUnmounted(dataset) ELSE dataset

\* what `zfs list` reports for the pool of a device: its root dataset and an
\* encrypted dataset (canmount=off) whose key is asked for; mounted tells what
\* is mounted
ZfsList(device, mounted) ==
    LET pool == DeviceGetId(device)
        enc == pool \o << "/", "e" >>
        yn(n) == IF n \in mounted THEN SYes ELSE SNo
    IN  << ZFSDataSet(pool, SFilesystem, pool, SOn, SOff, SNone, yn(pool), << "/" >>),
           ZFSDataSet(enc, SFilesystem, pool, SOff, SAes, SPrompt, yn(enc), << "/", "e" >>) >>

\* list_zfs_mountable_datasets, lines 238-243: the datasets that need a key
EncryptedRoots(datasets) == SelectSeq(datasets, LAMBDA ds : IsEncrypted(ds) /\ IsValidKeyRoot(ds))

\* a result that holds every listed dataset
MountableDatasetsUnfiltered(datasets) == datasets

\* list_zfs_mountable_datasets, line 270: the result
MountableDatasets(datasets) == SelectSeq(datasets, IsMountable)

\* list_zfs_mountable_datasets as a whole (lines 211-271) for the datasets
\* `zfs list` reports: loaded are the keys loaded before, succeed the datasets
\* for which a load attempt succeeds in the end. The key loop adds to
\* loaded_keys and leaves the datasets as they were listed.
ListZfsMountableDatasets(datasets, loaded, succeed) ==
    [datasets |-> MountableDatasets(datasets),
     loaded_keys |-> loaded \cup { ds.name : ds \in
                        { EncryptedRoots(datasets)[i] : i \in 1..Len(EncryptedRoots(datasets)) }
                            \cap { d \in { datasets[j] : j \in 1..Len(datasets) } :
                                      d.name \in succeed } }]

----------------------------------------------------------------------------
(* The interactive loop (src/src/main.rs, lines 358-412) *)

SSkip == << "s", "k", "i", "p" >>
MpMnt == << "/", "m", "n", "t" >>

\* what the user may type at get_mount_point
MountPointInputs == { MpMnt, SSkip }

\* an iteration of the loop ends: its mount point and its device go out of scope
EndIteration == pc' = "interactive" /\ selected_device' = None /\ mount_point' = << >>

lateFrame ==
    << args, has_luks_on_root, root_subvolid, crypttab_entries, entries, entry_idx,
       planner_pass, pass1_failed, matchVars >>

\* main, lines 358-370: the user is asked for another mount, its mount point
\* and its device; index 0 stands for the Skip item of the device picker
InteractiveSelect ==
    /\ pc = "interactive"
    /\ \E more \in BOOLEAN, mp \in MountPointInputs, sel \in 0..Len(block_devices) :
          IF ~more \/ EqIgnoreAsciiCase(mp, SSkip)
          THEN /\ pc' = "chroot"
               /\ selected_device' = None
               /\ UNCHANGED << mount_point, iter >>
          ELSE /\ iter < MaxIter
               /\ iter' = iter + 1
               /\ IF sel = 0
                  THEN EndIteration
                  ELSE /\ mount_point' = mp
                       /\ selected_device' = Some(block_devices[sel])
                       /\ pc' = IF block_devices[sel].fs_type = FsLuks THEN "int_open"
                                ELSE "int_mount"
    /\ step_calls' = << >>
    /\ EnterPhase("InteractiveMountLoop")
    /\ UNCHANGED << exit_cause, block_devices, opened_luks_devices, mounted_partitions,
                    discovered_btrfs_subvolumes, td_idx, zfs_queue, chroot_result,
                    imported_pools, loaded_keys, sysVars, td_log, lateFrame >>

\* main, lines 371-380: the selected device is an encrypted container; it is
\* opened, the devices are listed again and the device is selected again
InteractiveOpenLuks ==
    /\ pc = "int_open"
    /\ LET device == selected_device[1] IN
       \E open_ok \in BOOLEAN :
          /\ step_calls' = << Call("luksOpen", device.name, MappedName(device), None,
                                   open_ok, FALSE, "InteractiveMountLoop") >>
          /\ IF ~open_ok
             THEN /\ Exit("open_device")
                  /\ UNCHANGED << sys_luks, opened_luks_devices, block_devices, selected_device,
                                  mount_point >>
             ELSE /\ sys_luks' = sys_luks \cup {MappedName(device)}
                  /\ opened_luks_devices' = Append(opened_luks_devices, device)
                  /\ block_devices' = ListBlockDevices(opened_luks_devices', sys_luks')
                  /\ exit_cause' = exit_cause
                  /\ \E sel \in 0..Len(block_devices') :
                        IF sel = 0
                        THEN EndIteration
                        ELSE /\ selected_device' = Some(block_devices'[sel])
                             /\ pc' = "int_mount"
                             /\ UNCHANGED mount_point
    /\ UNCHANGED << mounted_partitions, discovered_btrfs_subvolumes, iter, td_idx,
                    zfs_queue, chroot_result, imported_pools, loaded_keys, sys_mounts,
                    sys_pools, sys_keys, td_log, phases, lateFrame >>

\* main, lines 385-403: r is the outcome of the cache lookup of
\* get_btrfs_subvolume; the subvolume the picker returns is mounted
MountPicked(r, role, mp, mounted, pick, mount_ok, skip, phase) ==
    IF r.status # "ok"
    THEN PlanResult(r.status,
                    IF r.status = "exit" THEN "mount_block_device" ELSE "list_subvolumes",
                    mounted, r.cache, r.leaked, r.calls, {})
    ELSE MountSubvolume(SelectSubvolume(r.known, role, FALSE,
                                        IF pick <= Len(r.known) THEN pick ELSE 1),
                        mp, mounted, r.cache, r.leaked, r.calls, mount_ok, skip, phase)

\* main, lines 381-411: the selected device is mounted at the mount point
\* unless its identity (for BTRFS: that of the chosen subvolume) is in
\* mounted_partitions. The result is a PlanResult. pick is the index the
\* subvolume picker returns; one beyond the list stands for its first item.
MountSelected(device, mp, mounted, cache, show, ch, pick, mount_ok, skip, phase) ==
    IF AlreadyMounted(mounted, DeviceGetId(device))
    THEN PlanResult("next", "none", mounted, cache, {}, << >>, {})
    ELSE IF device.fs_type = FsBtrfs
    THEN MountPicked(GetBtrfsSubvolume(device, cache, show, mp, ch,
                                       InSeq(mounted, DeviceGetId(device)), phase),
                     mp, PathJoin(RootMountPoint, TrimStartMatches(mp, << "/" >>)),
                     mounted, pick, mount_ok, skip, phase)
    ELSE Mounted(MountBlockDevice(TRUE, mount_ok, skip), DeviceGetId(device),
                 Mount(device, PathJoin(RootMountPoint, TrimStartMatches(mp, << "/" >>)),
                       None),
                 Call("mount", device.name, DeviceGetId(device),
                      PathJoin(RootMountPoint, TrimStartMatches(mp, << "/" >>)), mount_ok,
                      InSeq(mounted, DeviceGetId(device)), phase),
                 mounted, cache, {}, << >>)

\* the indices the subvolume picker can return: a listing of n lines yields at
\* most n - 1 subvolumes (two header lines less, the root subvolume more)
PickIndices == UNION { 1..(Len(l) - 1) : l \in { x \in ListingOutputs : Len(x) >= 2 } }

\* the iteration ends, or the process does
InteractiveApply(r) ==
    /\ ApplyPlan(r)
    /\ IF r.status = "next"
       THEN EndIteration /\ UNCHANGED exit_cause
       ELSE Exit(r.cause) /\ UNCHANGED << selected_device, mount_point >>

InteractiveMount ==
    /\ pc = "int_mount"
    /\ LET device == selected_device[1] IN
       IF IsPoolMember(device) /\ ~InSeq(mounted_partitions, DeviceGetId(device))
       THEN /\ pc' = "zfs_import"
            /\ step_calls' = << >>
            /\ UNCHANGED << exit_cause, mounted_partitions, discovered_btrfs_subvolumes,
                            sys_mounts, selected_device, mount_point >>
       ELSE \E ch \in ListingChoices, pick \in PickIndices, ans \in MountAnswers :
               InteractiveApply(MountSelected(device, mount_point, mounted_partitions,
                                    discovered_btrfs_subvolumes,
                                    args.show_btrfs_dot_snapshots, ch, pick, ans.mount_ok,
                                    ans.skip, "InteractiveMountLoop"))
    /\ UNCHANGED << block_devices, opened_luks_devices, iter,
                    td_idx, zfs_queue, chroot_result, imported_pools, loaded_keys, sys_luks,
                    sys_pools, sys_keys, td_log, phases, lateFrame >>

----------------------------------------------------------------------------
(* The dataset steps of the interactive loop. main.rs under src/ predates the
   ZFS support: the calls of the zfs.rs functions are sequenced as the
   specification describes them (import, listing with key loads, selection,
   mounts) *)

\* the names of the datasets that are mounted
MountedNames == { m.dev : m \in sys_mounts }

\* the pool of the selected device is imported unless the session imported it
\* before (import_zfs_pool exits when the import fails); the datasets that
\* need a key are queued
ZfsImport ==
    /\ pc = "zfs_import"
    /\ LET device == selected_device[1] IN
       /\ IF InSeq(imported_pools, device)
          THEN /\ step_calls' = << >>
               /\ pc' = "zfs_keys"
               /\ UNCHANGED << exit_cause, imported_pools, sys_pools >>
          ELSE \E import_ok \in BOOLEAN, force \in BOOLEAN, force_ok \in BOOLEAN :
                  LET r == ImportZfsPool(device, import_ok, force, force_ok,
                                         "InteractiveMountLoop")
                  IN  /\ step_calls' = r.calls
                      /\ IF r.status = "ok"
                         THEN /\ imported_pools' = Append(imported_pools, device)
                              /\ sys_pools' = sys_pools \cup {DeviceGetId(device)}
                              /\ pc' = "zfs_keys"
                              /\ UNCHANGED exit_cause
                         ELSE /\ Exit("import_zfs_pool")
                              /\ UNCHANGED << imported_pools, sys_pools >>
       /\ zfs_queue' = IF pc' = "zfs_keys" THEN EncryptedRoots(ZfsList(device, MountedNames))
                       ELSE zfs_queue
    /\ UNCHANGED << block_devices, selected_device, opened_luks_devices, mounted_partitions,
                    discovered_btrfs_subvolumes, mount_point, iter, td_idx, chroot_result,
                    loaded_keys, sys_mounts, sys_luks, sys_keys, td_log, phases, lateFrame >>

\* a key loop that gives the listing up after a failed load
AfterFailedLoadAbort(queue, retry) == << >>

\* load_zfs_key, lines 160-168, and list_zfs_mountable_datasets, lines 258-266:
\* after a failed load a yes to retry_zfs_passphrase leads to another attempt
\* for the same dataset; a no ends load_zfs_key with false, the failure is
\* logged and the loop goes on to the next dataset
AfterFailedLoad(queue, retry) == IF retry THEN queue ELSE Tail(queue)

\* a key loop that takes no key for loaded
KeyNeverLoaded(loaded, dataset) == FALSE

\* list_zfs_mountable_datasets, line 250: loaded_keys.contains(&dataset.name)
KeyAlreadyLoaded(loaded, dataset) == dataset.name \in loaded

\* list_zfs_mountable_datasets, lines 249-268, and load_zfs_key: one load
\* attempt for the first queued dataset. A dataset whose name is in loaded_keys
\* is passed over without a call; after a failed attempt retry is the answer
\* to retry_zfs_passphrase, and a yes leaves the dataset queued for the next
\* attempt.
ZfsLoadKey ==
    /\ pc = "zfs_keys"
    /\ zfs_queue # << >>
    /\ LET dataset == Head(zfs_queue) IN
       IF KeyAlreadyLoaded(loaded_keys, dataset)
       THEN /\ zfs_queue' = Tail(zfs_queue)
            /\ step_calls' = << >>
            /\ UNCHANGED << loaded_keys, sys_keys >>
       ELSE \E load_ok \in BOOLEAN, retry \in BOOLEAN :
               /\ step_calls' = << Call("load-key", dataset.name, dataset.name, None, load_ok,
                                        dataset.name \in loaded_keys, "InteractiveMountLoop") >>
               /\ IF load_ok
                  THEN /\ loaded_keys' = loaded_keys \cup {dataset.name}
                       /\ sys_keys' = sys_keys \cup {dataset.name}
                       /\ zfs_queue' = Tail(zfs_queue)
                  ELSE /\ zfs_queue' = AfterFailedLoad(zfs_queue, retry)
                       /\ UNCHANGED << loaded_keys, sys_keys >>
    /\ UNCHANGED << pc, exit_cause, block_devices, selected_device, opened_luks_devices,
                    mounted_partitions, discovered_btrfs_subvolumes, mount_point, iter, td_idx,
                    chroot_result, imported_pools, sys_mounts, sys_luks, sys_pools, td_log,
                    phases, lateFrame >>

\* the subsequences of s, as the index sets a multi-select can return
RECURSIVE SubSeqs(_)
SubSeqs(s) ==
    IF s = << >> THEN { << >> }
    ELSE LET rest == SubSeqs(Tail(s)) IN rest \cup { << Head(s) >> \o r : r \in rest }

\* list_zfs_mountable_datasets, line 270, then the selection: the mountable
\* datasets are offered and the user's selection (it may be empty) is queued
ZfsSelectDatasets ==
    /\ pc = "zfs_keys"
    /\ zfs_queue = << >>
    /\ \E selection \in SubSeqs(MountableDatasets(ZfsList(selected_device[1], MountedNames))) :
          /\ zfs_queue' = selection
          /\ IF selection = << >> THEN EndIteration
             ELSE pc' = "zfs_mount" /\ UNCHANGED << selected_device, mount_point >>
    /\ step_calls' = << >>
    /\ UNCHANGED << exit_cause, block_devices, opened_luks_devices,
                    mounted_partitions, discovered_btrfs_subvolumes, iter, td_idx,
                    chroot_result, imported_pools, loaded_keys, sysVars, td_log, phases,
                    lateFrame >>

\* the first queued dataset is mounted (mount_zfs_dataset, gracefully_fail set)
\* and, once mounted, its identity is appended to mounted_partitions
ZfsMount ==
    /\ pc = "zfs_mount"
    /\ LET dataset == Head(zfs_queue)
           mp == PathJoin(RootMountPoint,
                          TrimStartMatches(dataset.properties.mountpoint, << "/" >>))
       IN
       \E mount_ok \in BOOLEAN, skip \in BOOLEAN :
          LET r == MountZfsDataset(dataset, TRUE, mount_ok, skip) IN
          /\ step_calls' =
                IF r.called
                THEN << Asked(Call("zfs-mount", dataset.name, DatasetGetId(dataset), mp,
                                   mount_ok, InSeq(mounted_partitions, DatasetGetId(dataset)),
                                   "InteractiveMountLoop"),
                              r.prompted) >>
                ELSE << >>
          /\ IF r.status = "exit"
             THEN /\ Exit("mount_zfs_dataset")
                  /\ UNCHANGED << zfs_queue, mounted_partitions, sys_mounts, selected_device,
                                  mount_point >>
             ELSE /\ zfs_queue' = Tail(zfs_queue)
                  /\ IF Tail(zfs_queue) = << >> THEN EndIteration
                     ELSE UNCHANGED << pc, selected_device, mount_point >>
                  /\ UNCHANGED exit_cause
                  /\ IF IsMounted(r.dataset) /\ ~InSeq(mounted_partitions, DatasetGetId(dataset))
                     THEN /\ mounted_partitions' =
                                Append(mounted_partitions, DatasetGetId(dataset))
                          /\ sys_mounts' = sys_mounts \cup {Mount([name |-> dataset.name], mp, None)}
                     ELSE UNCHANGED << mounted_partitions, sys_mounts >>
    /\ UNCHANGED << block_devices, opened_luks_devices,
                    discovered_btrfs_subvolumes, iter, td_idx, chroot_result,
                    imported_pools, loaded_keys, sys_luks, sys_pools, sys_keys, td_log, phases,
                    lateFrame >>

----------------------------------------------------------------------------
(* Chroot and teardown (src/src/main.rs, lines 414-428) *)

tdFrame ==
    << block_devices, selected_device, opened_luks_devices, mounted_partitions,
       discovered_btrfs_subvolumes, mount_point, iter, zfs_queue, imported_pools,
       loaded_keys, phases, lateFrame >>

\* where teardown goes on after the root tree, the encrypted volumes and the keys
AfterUnload == IF imported_pools # << >> THEN "td_export" ELSE "done"
AfterClose == IF loaded_keys # {} THEN "td_unload" ELSE AfterUnload
AfterUmount == IF opened_luks_devices # << >> THEN "td_close" ELSE AfterClose

\* main, line 425: teardown starts with the unmount of the root tree
AfterChroot == "td_umount"

\* main, lines 420-423: arch-chroot runs; "err" is a chroot that could not be
\* started, on which expect panics; its exit status is not looked at
Chroot ==
    /\ pc = "chroot"
    /\ \E result \in {"ok", "fail", "err"} :
          /\ step_calls' = << Call("chroot", None, None, RootMountPoint, result = "ok", FALSE,
                                   "Chroot") >>
          /\ IF result = "err"
             THEN Exit("main") /\ UNCHANGED chroot_result
             ELSE /\ chroot_result' = "returned"
                  /\ pc' = AfterChroot
                  /\ UNCHANGED exit_cause
    /\ phases' = Append(phases, "Chroot")
    /\ UNCHANGED << block_devices, selected_device, opened_luks_devices, mounted_partitions,
                    discovered_btrfs_subvolumes, mount_point, iter, td_idx, zfs_queue,
                    imported_pools, loaded_keys, sysVars, td_log, lateFrame >>

\* the keys teardown has not yet unloaded
KeysLeft == loaded_keys \ { td_log[i].id : i \in { j \in 1..Len(td_log) : td_log[j].op = "unload-key" } }

\* main, line 425: umount_block_device(root_mount_point, true). The exit status
\* of umount is not looked at; "err" is an umount that could not be started,
\* on which expect panics. A successful umount -R unmounts the root tree.
TdUmountRoot ==
    /\ pc = "td_umount"
    /\ \E result \in {"ok", "fail", "err"} :
          /\ step_calls' = << Call("umount", None, None, RootMountPoint, result = "ok", FALSE,
                                   "Teardown") >>
          /\ td_log' = Append(td_log, step_calls'[1])
          /\ sys_mounts' = IF result = "ok"
                           THEN { m \in sys_mounts : ~StartsWith(m.mp, RootMountPoint) }
                           ELSE sys_mounts
          /\ IF result = "err"
             THEN Exit("umount_block_device")
             ELSE pc' = AfterUmount /\ UNCHANGED exit_cause
    /\ td_idx' = 1
    /\ phases' = Append(phases, "Teardown")
    /\ UNCHANGED << block_devices, selected_device, opened_luks_devices,
                    mounted_partitions, discovered_btrfs_subvolumes, mount_point, iter,
                    zfs_queue, chroot_result, imported_pools, loaded_keys, sys_luks, sys_pools,
                    sys_keys, lateFrame >>

\* whether something mounted lives on the mapping of an encrypted volume
Busy(device) == \E m \in sys_mounts : BackingOf(m.dev) = Some(MappedName(device))

\* main, lines 426-428, and luks::close_device: the next opened volume is
\* closed; a failed close is logged. The mapping of a volume in use cannot be
\* closed.
TdClose ==
    /\ pc = "td_close"
    /\ LET device == opened_luks_devices[td_idx] IN
       \E close_ok \in (IF Busy(device) THEN {FALSE} ELSE BOOLEAN) :
          LET call == Call("luksClose", device.name, CloseMappedName(device), None, close_ok,
                           Busy(device), "Teardown")
          IN  /\ step_calls' = << call >>
              /\ td_log' = Append(td_log, call)
              /\ sys_luks' = IF close_ok THEN sys_luks \ {CloseMappedName(device)}
                             ELSE sys_luks
    /\ IF td_idx < Len(opened_luks_devices)
       THEN td_idx' = td_idx + 1 /\ UNCHANGED pc
       ELSE td_idx' = 1 /\ pc' = AfterClose
    /\ UNCHANGED << exit_cause, chroot_result, sys_mounts, sys_pools, sys_keys, tdFrame >>

\* the datasets of a pool
InPool(dataset, pool) == StartsWith(dataset, pool)

\* teardown, third step: the key of each dataset in loaded_keys is unloaded
\* (unload_zfs_key: a failure is logged). The key of a mounted dataset cannot
\* be unloaded.
TdUnload ==
    /\ pc = "td_unload"
    /\ \E dataset \in KeysLeft :
          \E unload_ok \in (IF dataset \in MountedNames THEN {FALSE} ELSE BOOLEAN) :
             LET r == UnloadZfsKey(dataset, unload_ok, "Teardown") IN
             /\ step_calls' = r.calls
             /\ td_log' = td_log \o r.calls
             /\ sys_keys' = IF unload_ok THEN sys_keys \ {dataset} ELSE sys_keys
             /\ pc' = IF KeysLeft = {dataset} THEN AfterUnload ELSE pc
    /\ UNCHANGED << exit_cause, td_idx, chroot_result, sys_mounts, sys_luks, sys_pools,
                    tdFrame >>

\* whether a key of a dataset of the pool is loaded
KeyHeld(device) == \E k \in sys_keys : InPool(k, DeviceGetId(device))

\* teardown, fourth step: each imported pool is exported (export_zfs_pool: when
\* the export and the offered forced export fail, the process exits)
TdExport ==
    /\ pc = "td_export"
    /\ LET device == imported_pools[td_idx] IN
       \E export_ok \in BOOLEAN, force \in BOOLEAN, force_ok \in BOOLEAN :
          LET r == ExportZfsPool(device, export_ok, force, force_ok, "Teardown")
              done == r.calls[Len(r.calls)].ok
          IN  /\ step_calls' = r.calls
              /\ td_log' = Append(td_log, [r.calls[1] EXCEPT !.dup = KeyHeld(device)])
              /\ sys_pools' = IF done THEN sys_pools \ {DeviceGetId(device)} ELSE sys_pools
              /\ sys_keys' = IF done
                             THEN { k \in sys_keys : ~InPool(k, DeviceGetId(device)) }
                             ELSE sys_keys
              /\ IF r.status = "exit"
                 THEN Exit("export_zfs_pool") /\ UNCHANGED td_idx
                 ELSE /\ UNCHANGED exit_cause
                      /\ IF td_idx < Len(imported_pools)
                         THEN td_idx' = td_idx + 1 /\ UNCHANGED pc
                         ELSE td_idx' = 1 /\ pc' = "done"
    /\ UNCHANGED << chroot_result, sys_mounts, sys_luks, tdFrame >>

----------------------------------------------------------------------------
(* The session as a whole *)

Next ==
    \/ SelectRoot
    \/ RootOpenLuks
    \/ RootResolve
    \/ RootMount
    \/ ReadTables
    \/ FstabStep
    \/ FstabDone
    \/ InteractiveSelect
    \/ InteractiveOpenLuks
    \/ InteractiveMount
    \/ ZfsImport
    \/ ZfsLoadKey
    \/ ZfsSelectDatasets
    \/ ZfsMount
    \/ Chroot
    \/ TdUmountRoot
    \/ TdClose
    \/ TdUnload
    \/ TdExport

Spec == Init /\ [][Next]_vars

Terminated == pc \in {"done", "exited"}

----------------------------------------------------------------------------
(* The identity matcher on its own: BlockDevice::matches_fstab_entry applied
   to an entity and a reference drawn from bounded sets *)

MatchUuid == << "u", "1" >>
MatchPart == << "p", "1" >>
MatchLabel == << "x" >>
MatchPath == DevPrefix \o << "a" >>

\* the names an entity may have: a device path, and names that read like a
\* prefixed reference
MatchNames ==
    { MatchPath, PfxLABEL \o MatchLabel, PfxPARTLABEL \o MatchLabel, PfxPARTUUID \o MatchPart,
      PfxByPartUuid \o MatchPart }

MatchEntities ==
    { BlockDevice(n, FsExt4, MatchUuid, pu, l, pl) :
        n \in MatchNames, pu \in {None, Some(MatchPart)},
        l \in {None, Some(MatchLabel)}, pl \in {None, Some(MatchLabel)} }

MatchRefs ==
    { PfxUUID \o MatchUuid, PfxUUID \o MatchPart, PfxByUuid \o MatchUuid,
      PfxPARTUUID \o MatchPart, PfxPARTUUID \o MatchUuid, PfxByPartUuid \o MatchPart,
      PfxLABEL \o MatchLabel, PfxLABEL \o MatchPart, PfxPARTLABEL \o MatchLabel,
      MatchPath, MatchLabel }

InitMatch ==
    /\ pc = "match"
    /\ args = [show_btrfs_dot_snapshots |-> FALSE, no_auto_mount |-> FALSE]
    /\ Fresh
    /\ m_entity \in { Some(e) : e \in MatchEntities }
    /\ m_ref \in { Some(r) : r \in MatchRefs }
    /\ m_result = None

\* m_entity.matches_fstab_entry(m_ref) is called
ApplyMatch ==
    /\ pc = "match"
    /\ m_result = None
    /\ m_result' = Some(MatchesFstabEntry(m_entity[1], m_ref[1]))
    /\ UNCHANGED << pc, exit_cause, progVars, sysVars, ghostVars, m_entity, m_ref >>

NextMatch == ApplyMatch

SpecMatch == InitMatch /\ [][NextMatch]_vars

\* the attribute the prefix of a reference refers to is absent on the entity
LacksAttribute(e, r) ==
    \/ (StartsWith(r, PfxPARTUUID) \/ StartsWith(r, PfxByPartUuid)) /\ e.partuuid = None
    \/ StartsWith(r, PfxLABEL) /\ e.label = None
    \/ StartsWith(r, PfxPARTLABEL) /\ e.partlabel = None

\* C9: a reference with a PARTUUID=, /dev/disk/by-partuuid/, LABEL= or
\* PARTLABEL= prefix never matches an entity that lacks the attribute of that
\* prefix, whatever the entity's name is.
C9_AbsentAttributeNeverMatches ==
    (m_result # None /\ LacksAttribute(m_entity[1], m_ref[1])) => m_result[1] = FALSE

\* matches_reference as the specification characterises it: a prefixed
\* reference is compared with the attribute of its prefix and with nothing
\* else, an unprefixed one with the name
MatchesReference(e, r) ==
    IF StartsWith(r, PfxUUID) THEN StripPrefix(r, PfxUUID)[1] = e.uuid
    ELSE IF StartsWith(r, PfxByUuid) THEN StripPrefix(r, PfxByUuid)[1] = e.uuid
    ELSE IF StartsWith(r, PfxPARTUUID) THEN Some(StripPrefix(r, PfxPARTUUID)[1]) = e.partuuid
    ELSE IF StartsWith(r, PfxByPartUuid)
    THEN Some(StripPrefix(r, PfxByPartUuid)[1]) = e.partuuid
    ELSE IF StartsWith(r, PfxLABEL) THEN Some(StripPrefix(r, PfxLABEL)[1]) = e.label
    ELSE IF StartsWith(r, PfxPARTLABEL) THEN Some(StripPrefix(r, PfxPARTLABEL)[1]) = e.partlabel
    ELSE r = e.name

\* C10: matches_fstab_entry returns true exactly when the reference, read by
\* its prefix, equals the attribute of that prefix (UUID, PARTUUID, LABEL,
\* PARTLABEL), or carries no prefix and equals the name.
C10_MatchesExactlyByPrefix ==
    m_result # None => m_result[1] = MatchesReference(m_entity[1], m_ref[1])

\* the two differ only where C9 fails: on a prefixed reference whose attribute
\* is absent and which equals the entity's name
C10_DiffersOnlyWhereC9Fails ==
    (m_result # None /\ m_result[1] # MatchesReference(m_entity[1], m_ref[1]))
        => (LacksAttribute(m_entity[1], m_ref[1]) /\ m_ref[1] = m_entity[1].name)

----------------------------------------------------------------------------
(* Properties of the session *)

\* the mounts of the session: what is mounted under the root mount point
SessionMounts == { m \in sys_mounts : StartsWith(m.mp, RootMountPoint) }

\* the positions of td_log that hold a call of op
LogOf(op) == { i \in 1..Len(td_log) : td_log[i].op = op }

\* the mount calls of the latest step issued by the planner or the interactive loop
LateMountCalls ==
    { i \in 1..Len(step_calls) :
        /\ step_calls[i].op = "mount"
        /\ step_calls[i].phase \in {"AutoMountFromTable", "InteractiveMountLoop"} }

\* C2: when the process has exited, whatever ended it, the root tree is
\* unmounted and every encrypted volume the session opened is closed.
C2_ReleasedBeforeExit == pc = "exited" => (SessionMounts = {} /\ sys_luks = {})

\* C5: export_zfs_pool never ends the process.
C5_ExportPoolReturns == ~(pc = "exited" /\ exit_cause = "export_zfs_pool")

\* C3: no close call is issued for an encrypted volume while something
\* mounted lives on its mapping.
C3_CloseOnlyWhenUnmounted == \A i \in LogOf("luksClose") : ~td_log[i].dup

\* what teardown does keep: every close call comes after the unmount call for
\* the root tree has returned, and when that unmount succeeded nothing mounted
\* lives on the mapping the close names
C3_CloseAfterUmountReturned ==
    \A i \in LogOf("luksClose") :
        \E j \in LogOf("umount") : j < i /\ (td_log[j].ok => ~td_log[i].dup)

\* C4: no export call is issued for a pool while the key of one of its
\* datasets, loaded during the session, is still loaded.
C4_ExportOnlyWhenKeysUnloaded == \A i \in LogOf("export") : ~td_log[i].dup

\* the place of each phase in the order of a session
PhaseRank ==
    [p \in {"SelectRoot", "OpenEncryption", "ResolveSubvolume", "MountRoot",
            "AutoMountFromTable", "InteractiveMountLoop", "Chroot", "Teardown"} |->
        CASE p = "SelectRoot" -> 1
          [] p = "OpenEncryption" -> 2
          [] p = "ResolveSubvolume" -> 3
          [] p = "MountRoot" -> 4
          [] p = "AutoMountFromTable" -> 5
          [] p = "InteractiveMountLoop" -> 6
          [] p = "Chroot" -> 7
          [] p = "Teardown" -> 8]

\* the root is mounted at the root mount point
RootIsMounted == \E m \in sys_mounts : m.mp = RootMountPoint

\* C6: the phases of a session are entered in the order SelectRoot,
\* OpenEncryption, ResolveSubvolume, MountRoot, AutoMountFromTable,
\* InteractiveMountLoop, Chroot, Teardown (some may be left out); a mount call
\* of the planner or of the interactive loop is issued only with the root
\* mounted, and the chroot call only after the interactive loop, with no
\* selection of it left.
C6_PhasesInOrder ==
    /\ \A i, j \in 1..Len(phases) : i < j => PhaseRank[phases[i]] < PhaseRank[phases[j]]
    /\ LateMountCalls # {} => (RootIsMounted /\ InSeq(phases, "MountRoot"))
    /\ (\E i \in 1..Len(step_calls) : step_calls[i].op = "chroot")
          => /\ InSeq(phases, "InteractiveMountLoop")
             /\ InSeq(phases, "MountRoot")
             /\ selected_device = None /\ zfs_queue = << >>

\* a session went through all eight phases
C6_Witness == pc = "done" /\ Len(phases) = 8

\* C8: no mount call of the planner or of the interactive loop is issued for
\* an identity that is in mounted_partitions; an identity whose mount
\* succeeded is in mounted_partitions when the step is over; no identity is
\* in mounted_partitions twice.
C8_NoMountOfMountedIdentity ==
    /\ \A i \in LateMountCalls :
          /\ ~step_calls[i].dup
          /\ (step_calls[i].ok /\ ~StartsWith(step_calls[i].mp, TmpMountPrefix))
                => InSeq(mounted_partitions, step_calls[i].id)
    /\ \A i, j \in 1..Len(mounted_partitions) :
          i # j => mounted_partitions[i] # mounted_partitions[j]

\* the planner mounted DevExt under its alias and then skipped the entry that
\* names DevExt by its path
C8_Witness ==
    /\ pc = "fstab" /\ entry_idx = 3
    /\ entries = << EntryAlias, EntryBoot >>
    /\ step_calls = << >>
    /\ RootIdentity # DeviceGetId(DevExt)
    /\ InSeq(mounted_partitions, DeviceGetId(DevExt))

----------------------------------------------------------------------------
(* Teardown on its own: the sessions that are about to run arch-chroot, with
   what they opened, imported and loaded *)

\* the pool members a session imported, in the order of their import
TeardownPools == { << >>, << DevZa >>, << DevZa, DevZb >> }

\* the dataset of a pool whose key is asked for (as ZfsList has it)
EncName(device) == DeviceGetId(device) \o << "/", "e" >>

\* the root dataset of a pool, mounted under the root mount point
PoolMount(device) ==
    Mount([name |-> DeviceGetId(device)], PathJoin(RootMountPoint, << >>), None)

\* the ids of the root datasets of pools that are in ds
PoolIds(pools, ds) ==
    [i \in 1..Len(SelectSeq(pools, LAMBDA d : d \in ds)) |->
        LET name == DeviceGetId(SelectSeq(pools, LAMBDA d : d \in ds)[i])
        IN  name \o << "-" >> \o name]

\* main is about to spawn arch-chroot with root mounted as root device, the
\* encrypted volumes opened, the pools imported, the keys loaded and the root
\* datasets of the pools of ds mounted
AtChroot(root, opened, pools, keys, ds) ==
    /\ pc = "chroot"
    /\ exit_cause = "none"
    /\ args = [show_btrfs_dot_snapshots |-> FALSE, no_auto_mount |-> TRUE]
    /\ opened_luks_devices = opened
    /\ sys_luks = { MappedName(opened[i]) : i \in 1..Len(opened) }
    /\ block_devices = ListBlockDevices(opened, sys_luks)
    /\ selected_device = None
    /\ mounted_partitions = << DeviceGetId(root) >> \o PoolIds(pools, ds)
    /\ sys_mounts = { Mount(root, RootMountPoint, None) } \cup { PoolMount(d) : d \in ds }
    /\ discovered_btrfs_subvolumes = EmptyMap
    /\ has_luks_on_root = (opened # << >>)
    /\ root_subvolid = None
    /\ crypttab_entries = EmptyMap
    /\ entries = << >>
    /\ entry_idx = 1
    /\ mount_point = << >>
    /\ iter = Len(pools)
    /\ td_idx = 1
    /\ zfs_queue = << >>
    /\ chroot_result = "none"
    /\ imported_pools = pools
    /\ sys_pools = { DeviceGetId(pools[i]) : i \in 1..Len(pools) }
    /\ loaded_keys = keys
    /\ sys_keys = keys
    /\ step_calls = << >>
    /\ td_log = << >>
    /\ phases = (IF opened = << >> THEN << "SelectRoot" >>
                 ELSE << "SelectRoot", "OpenEncryption" >>)
                    \o << "MountRoot", "InteractiveMountLoop" >>
    /\ planner_pass = 1
    /\ pass1_failed = {}
    /\ m_entity = None /\ m_ref = None /\ m_result = None

InitTeardown ==
    \E opened \in { << >>, << DevLuks >> }, pools \in TeardownPools :
       \E root \in (IF opened = << >> THEN {DevExt} ELSE {DevExt, DevMap}),
          keys \in SUBSET { EncName(pools[i]) : i \in 1..Len(pools) },
          ds \in SUBSET { pools[i] : i \in 1..Len(pools) } :
          AtChroot(root, opened, pools, keys, ds)

NextTeardown ==
    \/ Chroot
    \/ TdUmountRoot
    \/ TdClose
    \/ TdUnload
    \/ TdExport

SpecTeardown == InitTeardown /\ [][NextTeardown]_vars

\* the operations of the teardown calls so far
TdOps == [i \in 1..Len(td_log) |-> td_log[i].op]

\* the unmount of the root tree, then one close for each opened volume, then
\* one unload-key for each loaded key, then one export for each imported pool
TdOrder ==
    << "umount" >>
        \o [i \in 1..Len(opened_luks_devices) |-> "luksClose"]
        \o [i \in 1..Cardinality(loaded_keys) |-> "unload-key"]
        \o [i \in 1..Len(imported_pools) |-> "export"]

\* C1: once arch-chroot has returned, a session that opened N encrypted
\* volumes, loaded K keys and imported M pools ends having issued the unmount
\* of the root tree, then N close calls, then K unload-key calls, then M
\* export calls, whatever the outcome of each of them.
C1_TeardownRunsEveryStep == (Terminated /\ chroot_result = "returned") => TdOps = TdOrder

----------------------------------------------------------------------------
(* The mount planner on its own, run twice: the loop over the mount table of
   main (lines 248-354) starts from a mounted root, and once it is through the
   table it is entered again with the same table, the same devices and the
   mounted_partitions (and subvolume cache) the first pass left *)

\* the subvolumes of DevBtr as a full listing gives them
BtrSubvolumes == ParseSubvolumeListing(DevBtr, ListingFull, FALSE).subvolumes

\* the subvolume @ of DevBtr
BtrRoot == SelectSubvolume(BtrSubvolumes, RoleRoot, TRUE, 1)

\* main has mounted its root and read the tables: the root is DevExt, or the
\* subvolume @ of DevBtr
AtPlanner(root_is_btrfs, table, crypttab) ==
    /\ pc = "fstab"
    /\ exit_cause = "none"
    /\ args = [show_btrfs_dot_snapshots |-> FALSE, no_auto_mount |-> FALSE]
    /\ block_devices = ListBlockDevices(<< >>, {})
    /\ selected_device = Some(IF root_is_btrfs THEN DevBtr ELSE DevExt)
    /\ opened_luks_devices = << >>
    /\ mounted_partitions =
          << IF root_is_btrfs THEN SubvolGetId(BtrRoot) ELSE DeviceGetId(DevExt) >>
    /\ discovered_btrfs_subvolumes =
          IF root_is_btrfs THEN [u \in {DevBtr.uuid} |-> BtrSubvolumes] ELSE EmptyMap
    /\ has_luks_on_root = FALSE
    /\ root_subvolid = IF root_is_btrfs THEN Some(BtrRoot.subvolume_id) ELSE None
    /\ crypttab_entries = ListCrypttabEntries(crypttab)
    /\ entries = table
    /\ entry_idx = 1
    /\ mount_point = << >>
    /\ iter = 0
    /\ td_idx = 1
    /\ zfs_queue = << >>
    /\ chroot_result = "none"
    /\ imported_pools = << >>
    /\ loaded_keys = {}
    /\ sys_mounts = { Mount(selected_device[1], RootMountPoint, root_subvolid) }
    /\ sys_luks = {}
    /\ sys_pools = {}
    /\ sys_keys = {}
    /\ step_calls = << >>
    /\ td_log = << >>
    /\ phases = << "SelectRoot" >>
                   \o (IF root_is_btrfs THEN << "ResolveSubvolume" >> ELSE << >>)
                   \o << "MountRoot", "AutoMountFromTable" >>
    /\ planner_pass = 1
    /\ pass1_failed = {}
    /\ m_entity = None /\ m_ref = None /\ m_result = None

InitIdem ==
    \E root_is_btrfs \in BOOLEAN, table \in Tables, crypttab \in CrypttabFiles :
       AtPlanner(root_is_btrfs, table, crypttab)

\* the planner, through the mount table, is run over it once more
SecondPass ==
    /\ pc = "fstab"
    /\ entry_idx > Len(entries)
    /\ planner_pass = 1
    /\ planner_pass' = 2
    /\ entry_idx' = 1
    /\ step_calls' = << >>
    /\ UNCHANGED << pc, exit_cause, args, block_devices, selected_device, opened_luks_devices,
                    mounted_partitions, discovered_btrfs_subvolumes, has_luks_on_root,
                    root_subvolid, crypttab_entries, entries, mount_point, iter, td_idx,
                    zfs_queue, chroot_result, imported_pools, loaded_keys, sysVars, td_log, phases, pass1_failed,
                    matchVars >>

NextIdem ==
    \/ FstabStep
    \/ SecondPass
    \/ FstabDone

SpecIdem == InitIdem /\ [][NextIdem]_vars

\* the mount calls of the latest step of the second pass
SecondPassMounts ==
    { i \in 1..Len(step_calls) : step_calls[i].op = "mount" /\ planner_pass = 2 }

\* C7 as the specification has it: the second pass of the planner over the
\* same table issues no mount call.
C7_SecondPassIssuesNoMount == SecondPassMounts = {}

\* C7, amended: the second pass issues a mount call only for an identity whose
\* mount failed in the first pass (and was skipped on the user's answer); every
\* identity the first pass mounted, and the root, is passed over.
C7_SecondPassOnlyRetriesFailed ==
    \A i \in SecondPassMounts :
        /\ step_calls[i].id \in pass1_failed
        /\ ~step_calls[i].dup
        /\ ~StartsWith(step_calls[i].mp, TmpMountPrefix)

\* the first pass mounted two entries, and the second pass went through the
\* table without a call
C7_Witness ==
    /\ planner_pass = 2
    /\ pc = "fstab" /\ entry_idx = 3 /\ Len(entries) = 2
    /\ Len(mounted_partitions) = 3
    /\ pass1_failed = {}
    /\ step_calls = << >>

----------------------------------------------------------------------------
(* The device lookup of the mount planner on its own (src/src/main.rs, lines
   252-272): m_entity holds the listed devices, m_ref the mount-table entry *)

\* the values a source-spec may carry: attributes of DevExt, and one that no
\* device has
ResolveValues ==
    { DevExt.uuid, DevExt.partuuid[1], DevExt.label[1], << "u", "9" >>, DevExt.name }

\* source-specs: each prefix of the matcher, and none, before each value
ResolveSpecs ==
    { pfx \o v : pfx \in { PfxUUID, PfxByUuid, PfxPARTUUID, PfxByPartUuid, PfxLABEL,
                           PfxPARTLABEL, << >> },
                 v \in ResolveValues }

\* the device lists a session may hold: before and after DevLuks is opened
ResolveDevices ==
    { ListBlockDevices(<< >>, {}), ListBlockDevices(<< DevLuks >>, {MappedName(DevLuks)}),
      ListBlockDevices(<< >>, {MappedName(DevLuks)}) }

InitResolve ==
    /\ pc = "resolve"
    /\ args = [show_btrfs_dot_snapshots |-> FALSE, no_auto_mount |-> FALSE]
    /\ Fresh
    /\ m_entity \in { Some(devices) : devices \in ResolveDevices }
    /\ m_ref \in { Some(FstabEntry(spec, << "/", "h" >>, FsExt4, << >>)) : spec \in ResolveSpecs }
    /\ m_result = None

\* main, lines 252-272, for an entry without a key alias
ApplyResolve ==
    /\ pc = "resolve"
    /\ m_result = None
    /\ m_result' = Some(ResolveFstabDevice(m_ref[1], m_entity[1], EmptyMap))
    /\ UNCHANGED << pc, exit_cause, progVars, sysVars, ghostVars, m_entity, m_ref >>

NextResolve == ApplyResolve

SpecResolve == InitResolve /\ [][NextResolve]_vars

\* the listed devices that match_fstab_entry accepts for the source-spec
MatchingDevices(devices, spec) ==
    { i \in 1..Len(devices) : MatchesFstabEntry(devices[i], spec) }

\* C11: the device an entry without a key alias resolves to is a listed
\* device that matches_fstab_entry accepts for the entry's source-spec, and
\* the entry is unresolvable (no device, or an invalid source-spec) exactly
\* when matches_fstab_entry accepts no listed device.
C11_ResolvesThroughMatcher ==
    (pc = "resolve" /\ m_result # None) =>
        /\ m_result[1].device # None =>
              /\ InSeq(m_entity[1], m_result[1].device[1])
              /\ MatchesFstabEntry(m_result[1].device[1], m_ref[1].fs_spec)
        /\ (m_result[1].device = None) <=> (MatchingDevices(m_entity[1], m_ref[1].fs_spec) = {})

----------------------------------------------------------------------------
(* Properties of the subvolume cache *)

\* the temporary mounts of list_subvolumes for the entity uuid that the step
\* taken issues
TmpMountsOf(uuid) ==
    { i \in 1..Len(step_calls') :
        /\ step_calls'[i].op = "mount"
        /\ step_calls'[i].mp = TmpMountPrefix \o uuid }

\* the listings of the entity uuid that the step taken issues
ListingsOf(uuid) ==
    { i \in 1..Len(step_calls') :
        /\ step_calls'[i].op = "list"
        /\ step_calls'[i].mp = TmpMountPrefix \o uuid }

\* the step taken resolves a subvolume of the selected device: the root, or
\* the device of an interactive iteration that is not in mounted_partitions
ResolvesSelected ==
    /\ pc \in {"root_resolve", "int_mount"}
    /\ selected_device[1].fs_type = FsBtrfs
    /\ ~InSeq(mounted_partitions, DeviceGetId(selected_device[1]))

\* one step of a session keeps the cache coherent
CacheCoherentStep ==
    /\ DOMAIN discovered_btrfs_subvolumes \subseteq DOMAIN discovered_btrfs_subvolumes'
    /\ \A i \in 1..Len(block_devices) :
          LET uuid == block_devices[i].uuid IN
          /\ Cardinality(TmpMountsOf(uuid)) <= 1
          /\ Cardinality(ListingsOf(uuid)) <= 1
          /\ ListingsOf(uuid) # {} => TmpMountsOf(uuid) # {}
          /\ TmpMountsOf(uuid) # {} =>
                /\ uuid \notin DOMAIN discovered_btrfs_subvolumes
                /\ pc' # "exited" => uuid \in DOMAIN discovered_btrfs_subvolumes'
    /\ (ResolvesSelected /\ selected_device[1].uuid \notin DOMAIN discovered_btrfs_subvolumes)
          => TmpMountsOf(selected_device[1].uuid) # {}

----------------------------------------------------------------------------
(* list_subvolumes applied on its own *)

\* the rows a listing may hold after its header lines
ListingRows == { LineAt, LineHome, LineSnap, LineBadId }

\* the listings list_subvolumes is applied to: no output at all (one empty
\* line), one header line, and the two header lines followed by at most two rows
ListingInputs ==
    { << << >> >>, << Hdr1 >> }
        \cup { << Hdr1, Hdr2 >> \o rows :
                 rows \in { << >> } \cup { << a >> : a \in ListingRows }
                             \cup { << a, b >> : a \in ListingRows, b \in ListingRows } }

\* m_entity holds the outcomes of the capability calls and the flag of one
\* application to DevBtr
InitList ==
    /\ pc = "list"
    /\ args = [show_btrfs_dot_snapshots |-> FALSE, no_auto_mount |-> FALSE]
    /\ Fresh
    /\ m_entity \in { Some([mount_ok |-> mo, lines |-> l, umount_ok |-> uo,
                            include_dot_snapshots |-> inc]) :
                        mo \in BOOLEAN, l \in ListingInputs, uo \in BOOLEAN,
                        inc \in BOOLEAN }
    /\ m_ref = None
    /\ m_result = None

ApplyList ==
    /\ pc = "list"
    /\ m_result = None
    /\ m_result' = Some(ListSubvolumes(DevBtr, m_entity[1].include_dot_snapshots,
                                       m_entity[1].mount_ok, m_entity[1].lines,
                                       m_entity[1].umount_ok, FALSE, "ResolveSubvolume"))
    /\ UNCHANGED << pc, exit_cause, progVars, sysVars, ghostVars, m_entity, m_ref >>

NextList == ApplyList

SpecList == InitList /\ [][NextList]_vars

\* the calls of one application hold an unmount of the temporary mount point
UnmountIssued(calls) ==
    \E i \in 1..Len(calls) :
        calls[i].op = "umount" /\ calls[i].mp = TmpMountPoint(DevBtr)

\* C13: on every exit path of list_subvolumes (success, a row whose id does
\* not parse, a listing shorter than the two header lines, a failed temporary
\* mount) the temporary mount is unmounted when it was mounted, none is left
\* behind, and the temporary mount point is released.
C13_TemporaryMountReleased ==
    (pc = "list" /\ m_result # None) =>
        /\ m_entity[1].mount_ok => UnmountIssued(m_result[1].calls)
        /\ m_result[1].leaked = {}
        /\ m_result[1].kept = {}

----------------------------------------------------------------------------
(* The selection policy of get_btrfs_subvolume applied on its own *)

\* the lists list_subvolumes returns for the listings of at most two distinct
\* rows, .snapshots included or not
SelectLists ==
    { ParseSubvolumeListing(DevBtr, l, inc).subvolumes :
        l \in { x \in ListingInputs :
                  /\ ~ParseSubvolumeListing(DevBtr, x, TRUE).panic
                  /\ Len(x) = 4 => x[3] # x[4] },
        inc \in BOOLEAN }

\* the roles a resolution is made for: "root", and the mount point typed in an
\* interactive iteration
SelectRoles == { RoleRoot, MpMnt }

\* m_entity holds the list; m_ref the role, the answer to the preset
\* confirmation and the index the picker returns
InitSelect ==
    /\ pc = "select"
    /\ args = [show_btrfs_dot_snapshots |-> FALSE, no_auto_mount |-> FALSE]
    /\ Fresh
    /\ m_entity \in { Some(known) : known \in SelectLists }
    /\ m_ref \in { Some([device_name |-> role, use_preset |-> up, pick |-> p]) :
                     role \in SelectRoles, up \in BOOLEAN, p \in 1..3 }
    /\ m_ref[1].pick <= Len(m_entity[1])
    /\ m_result = None

ApplySelect ==
    /\ pc = "select"
    /\ m_result = None
    /\ m_result' = Some([subvolume |-> SelectSubvolume(m_entity[1], m_ref[1].device_name,
                                                       m_ref[1].use_preset, m_ref[1].pick),
                         prompts |-> SelectPrompts(m_entity[1], m_ref[1].device_name,
                                                   m_ref[1].use_preset)])
    /\ UNCHANGED << pc, exit_cause, progVars, sysVars, ghostVars, m_entity, m_ref >>

NextSelect == ApplySelect

SpecSelect == InitSelect /\ [][NextSelect]_vars

HasAt(known) == \E i \in 1..Len(known) : known[i].subvolume_name = SubvolAt

PresetAccepted ==
    /\ m_ref[1].device_name = RoleRoot
    /\ HasAt(m_entity[1])
    /\ m_ref[1].use_preset

\* C14: for a list of more than one subvolume, the role "root", a subvolume
\* named "@" and an accepted preset confirmation give the subvolume named "@"
\* without a picker request; a declined confirmation, a list without "@" or
\* another role give a picker request and the picker's choice.
C14_PresetOrPicker ==
    (pc = "select" /\ m_result # None /\ Len(m_entity[1]) > 1) =>
        IF PresetAccepted
        THEN /\ m_result[1].subvolume.subvolume_name = SubvolAt
             /\ InSeq(m_entity[1], m_result[1].subvolume)
             /\ ~InSeq(m_result[1].prompts, PromptPicker)
        ELSE /\ InSeq(m_result[1].prompts, PromptPicker)
             /\ m_result[1].subvolume = m_entity[1][m_ref[1].pick]

\* the preset was accepted for a list of three subvolumes while the picker
\* would have returned another subvolume than "@"
C14_Witness ==
    /\ pc = "select" /\ m_result # None
    /\ Len(m_entity[1]) = 3
    /\ PresetAccepted
    /\ m_entity[1][m_ref[1].pick].subvolume_name # SubvolAt
    /\ m_result[1].subvolume.subvolume_name = SubvolAt

\* C15: a list of exactly one subvolume gives that subvolume, the root
\* subvolume, for every role, without a confirmation or picker request.
C15_SingleSubvolumeNoPrompt ==
    (pc = "select" /\ m_result # None /\ Len(m_entity[1]) = 1) =>
        /\ m_result[1].subvolume = m_entity[1][1]
        /\ m_result[1].subvolume.subvolume_id = RootSubvolId
        /\ m_result[1].prompts = << >>

\* the list of one subvolume was resolved for the role "root"
C15_Witness ==
    /\ pc = "select" /\ m_result # None
    /\ Len(m_entity[1]) = 1
    /\ m_ref[1].device_name = RoleRoot
    /\ m_result[1].subvolume.subvolume_id = RootSubvolId

----------------------------------------------------------------------------
(* The key loop of list_zfs_mountable_datasets in a session that listed before *)

\* list_zfs_mountable_datasets is about to walk the datasets of device that
\* need a key, in an iteration of the interactive loop of a session that has
\* root mounted as root device, the pools imported, the keys loaded and the
\* root datasets of the pools of ds mounted; extra holds the datasets the pool
\* has besides those of ZfsList
AtKeyLoop(root, device, pools, keys, ds, extra) ==
    /\ pc = "zfs_keys"
    /\ exit_cause = "none"
    /\ args = [show_btrfs_dot_snapshots |-> FALSE, no_auto_mount |-> TRUE]
    /\ opened_luks_devices = << >>
    /\ sys_luks = {}
    /\ block_devices = ListBlockDevices(<< >>, {})
    /\ selected_device = Some(device)
    /\ mounted_partitions = << DeviceGetId(root) >> \o PoolIds(pools, ds)
    /\ sys_mounts = { Mount(root, RootMountPoint, None) } \cup { PoolMount(d) : d \in ds }
    /\ discovered_btrfs_subvolumes = EmptyMap
    /\ has_luks_on_root = FALSE
    /\ root_subvolid = None
    /\ crypttab_entries = EmptyMap
    /\ entries = << >>
    /\ entry_idx = 1
    /\ mount_point = MpMnt
    /\ iter = Len(pools)
    /\ td_idx = 1
    /\ zfs_queue = EncryptedRoots(ZfsList(device, { m.dev : m \in sys_mounts }) \o extra)
    /\ chroot_result = "none"
    /\ imported_pools = pools
    /\ sys_pools = { DeviceGetId(pools[i]) : i \in 1..Len(pools) }
    /\ loaded_keys = keys
    /\ sys_keys = keys
    /\ step_calls = << >>
    /\ td_log = << >>
    /\ phases = << "SelectRoot", "MountRoot", "InteractiveMountLoop" >>
    /\ planner_pass = 1
    /\ pass1_failed = {}
    /\ m_entity = None /\ m_ref = None /\ m_result = None

\* the pools a session may have imported, in the order of their import
KeyLoopPools == { << DevZa >>, << DevZb >>, << DevZa, DevZb >>, << DevZb, DevZa >> }

\* a second dataset of the pool of device whose key is asked for
SecondEnc(device) ==
    ZFSDataSet(DeviceGetId(device) \o << "/", "f" >>, SFilesystem, DeviceGetId(device), SOn,
               SAes, SPrompt, SNo, << "/", "f" >>)

InitKeys ==
    \E pools \in KeyLoopPools, root \in {DevExt, DevBtr} :
       \E device \in { pools[i] : i \in 1..Len(pools) } :
          \E extra \in { << >>, << SecondEnc(device) >> } :
             \E keys \in SUBSET ({ EncName(pools[i]) : i \in 1..Len(pools) }
                                    \cup { extra[i].name : i \in 1..Len(extra) }),
                ds \in SUBSET { pools[i] : i \in 1..Len(pools) } :
                AtKeyLoop(root, device, pools, keys, ds, extra)

NextKeys == ZfsLoadKey

SpecKeys == InitKeys /\ [][NextKeys]_vars

\* the load-key calls of the step taken
LoadKeyCalls == { i \in 1..Len(step_calls') : step_calls'[i].op = "load-key" }

\* one step of the key loop: a key is asked for only when its dataset is not
\* in loaded_keys, and a dataset that is in loaded_keys is passed over with no
\* call and no change of loaded_keys
KeyLoopStep ==
    /\ \A i \in LoadKeyCalls : step_calls'[i].id \notin loaded_keys
    /\ (pc = "zfs_keys" /\ zfs_queue # << >> /\ Head(zfs_queue).name \in loaded_keys)
          => /\ step_calls' = << >>
             /\ loaded_keys' = loaded_keys
             /\ zfs_queue' = Tail(zfs_queue)

\* C16: list_zfs_mountable_datasets issues no load-key call (hence no retry
\* prompt, which follows a failed call only) for a dataset of key-location
\* "prompt" whose name is in loaded_keys when the call starts.
C16_NoLoadForLoadedKey == [][KeyLoopStep]_vars

\* the dataset of the selected pool was passed over: its key is loaded, the
\* loop is through and its last step made no call
C16_Witness ==
    /\ pc = "zfs_keys"
    /\ zfs_queue = << >>
    /\ step_calls = << >>
    /\ EncName(selected_device[1]) \in loaded_keys

----------------------------------------------------------------------------
(* mount_zfs_dataset and unmount_zfs_dataset applied on their own *)

SYesUpper == << "Y", "E", "S" >>
SDash == << "-" >>

\* the datasets the two functions are applied to: the datasets of the pool of
\* DevZa under the values `zfs list` may report as mounted and canmount
DatasetInputs ==
    { ZFSDataSet(name, SFilesystem, DeviceGetId(DevZa), canmount, enc[1], enc[2], mounted,
                 << "/" >>) :
        name \in { DeviceGetId(DevZa), EncName(DevZa) },
        canmount \in { SOn, SOff },
        enc \in { << SOff, SNone >>, << SAes, SPrompt >> },
        mounted \in { SYes, SYesUpper, SNo, SDash } }

SFilesystemUpper == << "F", "I", "L", "E", "S", "Y", "S", "T", "E", "M" >>
SVolume == << "v", "o", "l", "u", "m", "e" >>
SNoauto == << "n", "o", "a", "u", "t", "o" >>

\* the datasets of the pool of DevZa under the name name, for the types,
\* canmount values, mount points and encryptions `zfs list` may report
ListedAs(name, encs) ==
    { ZFSDataSet(name, type, DeviceGetId(DevZa), canmount, enc[1], enc[2], SNo, mountpoint) :
        type \in { SFilesystem, SFilesystemUpper, SVolume },
        canmount \in { SOn, SOff, SNoauto },
        mountpoint \in { << "/" >>, SNone },
        enc \in encs }

\* what `zfs list` may report for the pool of DevZa: its root dataset, alone or
\* followed by a dataset whose key is asked for
DatasetListings ==
    { << a >> : a \in ListedAs(DeviceGetId(DevZa),
                               { << SOff, SNone >>, << SAes, SPrompt >> }) }
        \cup { << a, b >> :
                 a \in ListedAs(DeviceGetId(DevZa), { << SOff, SNone >> }),
                 b \in ListedAs(EncName(DevZa), { << SAes, SPrompt >> }) }

\* m_entity holds the dataset; m_ref the function, gracefully_fail, the outcome
\* of the capability call and the answer to continue_on_mount_failure. For
\* import_zfs_pool m_entity holds the device; m_ref the outcome of the import,
\* the answer to allow_zfs_forced_import and the outcome of the forced import.
InitDataset ==
    /\ pc = "dataset"
    /\ args = [show_btrfs_dot_snapshots |-> FALSE, no_auto_mount |-> FALSE]
    /\ Fresh
    /\ \/ /\ m_entity \in { Some(ds) : ds \in DatasetInputs }
          /\ m_ref \in { Some([fn |-> "mount", gracefully_fail |-> gf, ok |-> ok,
                                skip |-> skip]) :
                           gf \in BOOLEAN, ok \in BOOLEAN, skip \in BOOLEAN }
                       \cup { Some([fn |-> "unmount", gracefully_fail |-> FALSE, ok |-> ok,
                                    skip |-> FALSE]) : ok \in BOOLEAN }
       \/ /\ m_entity \in { Some(DevZa), Some(DevZb) }
          /\ m_ref \in { Some([fn |-> "import", import_ok |-> ok, force |-> force,
                                force_ok |-> fok]) :
                           ok \in BOOLEAN, force \in BOOLEAN, fok \in BOOLEAN }
       \/ /\ m_entity \in { Some(l) : l \in DatasetListings }
          /\ m_ref \in { Some([fn |-> "list", loaded |-> {}, succeed |-> ok]) :
                           ok \in { {}, { DeviceGetId(DevZa), EncName(DevZa) } } }
    /\ m_result = None

ApplyMountDataset ==
    /\ pc = "dataset"
    /\ m_result = None
    /\ m_ref[1].fn = "mount"
    /\ m_result' = Some(MountZfsDataset(m_entity[1], m_ref[1].gracefully_fail, m_ref[1].ok,
                                        m_ref[1].skip))
    /\ UNCHANGED << pc, exit_cause, progVars, sysVars, ghostVars, m_entity, m_ref >>

ApplyUnmountDataset ==
    /\ pc = "dataset"
    /\ m_result = None
    /\ m_ref[1].fn = "unmount"
    /\ m_result' = Some([status |-> "ok",
                         dataset |-> UnmountZfsDataset(m_entity[1], m_ref[1].ok),
                         called |-> TRUE, prompted |-> FALSE])
    /\ UNCHANGED << pc, exit_cause, progVars, sysVars, ghostVars, m_entity, m_ref >>

ApplyImportPool ==
    /\ pc = "dataset"
    /\ m_result = None
    /\ m_ref[1].fn = "import"
    /\ m_result' = Some(ImportZfsPool(m_entity[1], m_ref[1].import_ok, m_ref[1].force,
                                      m_ref[1].force_ok, "InteractiveMountLoop"))
    /\ UNCHANGED << pc, exit_cause, progVars, sysVars, ghostVars, m_entity, m_ref >>

ApplyListDatasets ==
    /\ pc = "dataset"
    /\ m_result = None
    /\ m_ref[1].fn = "list"
    /\ m_result' = Some(ListZfsMountableDatasets(m_entity[1], m_ref[1].loaded,
                                                 m_ref[1].succeed))
    /\ UNCHANGED << pc, exit_cause, progVars, sysVars, ghostVars, m_entity, m_ref >>

NextDataset ==
    ApplyMountDataset \/ ApplyUnmountDataset \/ ApplyImportPool \/ ApplyListDatasets

SpecDataset == InitDataset /\ [][NextDataset]_vars

AppliedTo(fn) == pc = "dataset" /\ m_result # None /\ m_ref[1].fn = fn

\* C17: mount_zfs_dataset on a dataset whose flag says mounted runs no mount,
\* asks nothing, returns, and leaves the dataset as it was, for either value
\* of gracefully_fail.
C17_MountedDatasetUntouched ==
    (AppliedTo("mount") /\ IsMounted(m_entity[1])) =>
        /\ ~m_result[1].called
        /\ ~m_result[1].prompted
        /\ m_result[1].status = "ok"
        /\ m_result[1].dataset = m_entity[1]

\* a mounted dataset (flag "YES") went through mount_zfs_dataset without
\* gracefully_fail while a mount would have failed
C17_Witness ==
    /\ AppliedTo("mount")
    /\ m_entity[1].properties.mounted = SYesUpper
    /\ ~m_ref[1].gracefully_fail /\ ~m_ref[1].ok
    /\ m_result[1].status = "ok"

\* C18: unmount_zfs_dataset changes the mount-state flag only when the unmount
\* succeeded: after a failure the dataset is as it was and the function
\* returns; after a success the flag says not mounted.
C18_FlagClearedOnlyOnSuccess ==
    AppliedTo("unmount") =>
        /\ m_result[1].status = "ok"
        /\ ~m_ref[1].ok => m_result[1].dataset = m_entity[1]
        /\ m_ref[1].ok => /\ ~IsMounted(m_result[1].dataset)
                          /\ m_result[1].dataset.properties.mounted = SNo

\* the unmount of a mounted dataset failed and the dataset still says mounted
C18_Witness ==
    /\ AppliedTo("unmount")
    /\ IsMounted(m_entity[1])
    /\ ~m_ref[1].ok
    /\ IsMounted(m_result[1].dataset)

----------------------------------------------------------------------------
(* The subvolume selection of the planner applied on its own *)

\* the options a BTRFS entry of the mount table may carry
SubvolOptions ==
    { OptDefaults,
      OptSubvol \o << "/" >> \o SubvolAt,
      OptSubvol \o << "/", "@", "h", "o", "m", "e" >>,
      OptSubvol \o << "@", "h", "o", "m", "e" >>,
      OptSubvol \o << "/" >>,
      OptSubvol \o << "/", "/" >> \o SubvolAt,
      OptSubvol \o << "/" >> \o DotSnapshots,
      OptSubvolid \o << "2", "5", "7" >> }

\* m_entity holds the known subvolumes of DevBtr; m_ref the entry, of at most
\* two options. The result holds the selection and what the planner does with
\* it (main, lines 321-349) when nothing is mounted yet and the mount succeeds.
InitSubvol ==
    /\ pc = "subvol"
    /\ args = [show_btrfs_dot_snapshots |-> FALSE, no_auto_mount |-> FALSE]
    /\ Fresh
    /\ m_entity \in { Some(known) : known \in SelectLists }
    /\ m_ref \in { Some(FstabEntry(PfxUUID \o DevBtr.uuid, MpHome, FsBtrfs, opts)) :
                     opts \in { << >> } \cup { << a >> : a \in SubvolOptions }
                                 \cup { << a, b >> : a \in SubvolOptions, b \in SubvolOptions } }
    /\ m_result = None

ApplySubvol ==
    /\ pc = "subvol"
    /\ m_result = None
    /\ m_result' = Some([panic |-> SelectFstabSubvolume(m_ref[1], m_entity[1]).panic,
                         subvolume |-> SelectFstabSubvolume(m_ref[1], m_entity[1]).subvolume,
                         plan |-> PlanSelected(SelectFstabSubvolume(m_ref[1], m_entity[1]),
                                      PathJoin(RootMountPoint, << "h", "o", "m", "e" >>),
                                      << >>, EmptyMap, {}, << >>, TRUE, FALSE,
                                      "AutoMountFromTable")])
    /\ UNCHANGED << pc, exit_cause, progVars, sysVars, ghostVars, m_entity, m_ref >>

NextSubvol == ApplySubvol

SpecSubvol == InitSubvol /\ [][NextSubvol]_vars

IsOption(o, key) == Len(o) >= Len(key) /\ SubSeq(o, 1, Len(key)) = key

\* the subvol= options of the entry, in order
SubvolOpts(entry) == SelectSeq(entry.mount_options, LAMBDA o : IsOption(o, OptSubvol))

\* the entry carries no subvolid= option and its subvol= option has a value
\* that starts with the path separator
NamesSubvolPath(entry) ==
    /\ \A i \in 1..Len(entry.mount_options) : ~IsOption(entry.mount_options[i], OptSubvolid)
    /\ SubvolOpts(entry) # << >>
    /\ Len(SubvolOpts(entry)[1]) > Len(OptSubvol)
    /\ SubvolOpts(entry)[1][Len(OptSubvol) + 1] = "/"

\* X of subvol=/X
NamedSubvol(entry) ==
    SubSeq(SubvolOpts(entry)[1], Len(OptSubvol) + 2, Len(SubvolOpts(entry)[1]))

\* C19: for an entry with subvol=/X and no subvolid=, the selection among the
\* known subvolumes of the entity gives the subvolume named X when there is
\* one, and never a subvolume named otherwise than X or /X.
C19_SubvolPathResolvesByName ==
    (pc = "subvol" /\ m_result # None /\ NamesSubvolPath(m_ref[1])) =>
        /\ ~m_result[1].panic
        /\ (\E i \in 1..Len(m_entity[1]) :
               m_entity[1][i].subvolume_name = NamedSubvol(m_ref[1]))
              => /\ m_result[1].subvolume # None
                 /\ m_result[1].subvolume[1].subvolume_name = NamedSubvol(m_ref[1])
        /\ m_result[1].subvolume # None =>
              /\ InSeq(m_entity[1], m_result[1].subvolume[1])
              /\ m_result[1].subvolume[1].subvolume_name
                    \in { NamedSubvol(m_ref[1]), << "/" >> \o NamedSubvol(m_ref[1]) }

\* subvol=/@home was resolved to the subvolume named @home of a list that
\* holds other subvolumes before it
C19_Witness ==
    /\ pc = "subvol" /\ m_result # None
    /\ NamesSubvolPath(m_ref[1])
    /\ NamedSubvol(m_ref[1]) = << "@", "h", "o", "m", "e" >>
    /\ Len(m_entity[1]) = 3
    /\ m_result[1].subvolume # None
    /\ m_result[1].subvolume[1].subvolume_name = << "@", "h", "o", "m", "e" >>

----------------------------------------------------------------------------
(* Failures of the root operations *)

RootPhases == { "OpenEncryption", "ResolveSubvolume", "MountRoot" }

\* the step taken holds a root operation that failed: luksOpen or a mount of
\* the root phases failed, or the listing of the root's subvolumes was started
\* and gave no list
RootOperationFailed ==
    \/ \E i \in 1..Len(step_calls') :
          /\ step_calls'[i].phase \in RootPhases
          /\ step_calls'[i].op \in { "luksOpen", "mount" }
          /\ ~step_calls'[i].ok
    \/ /\ pc = "root_resolve"
       /\ step_calls' # << >>
       /\ selected_device[1].uuid \notin DOMAIN discovered_btrfs_subvolumes'

\* a failed root operation ends the process in the phase it belongs to, and an
\* ended process takes no step
RootFailureStep ==
    /\ RootOperationFailed =>
          /\ pc' = "exited"
          /\ phases'[Len(phases')] \in RootPhases
    /\ pc = "exited" => pc' = "exited" /\ phases' = phases /\ step_calls' = step_calls

\* C20: a failure to open the encrypted root, to list the subvolumes of the
\* root or to mount the root ends the process, whatever the user would answer
\* to the skip-and-continue confirmation, and no later phase runs.
C20_RootFailureIsFatal == [][RootFailureStep]_vars

\* the mount of the root failed and the process ended in the phase MountRoot
C20_Witness ==
    /\ pc = "exited"
    /\ exit_cause = "mount_block_device"
    /\ Len(step_calls) = 1
    /\ step_calls[1].phase = "MountRoot" /\ ~step_calls[1].ok
    /\ phases[Len(phases)] = "MountRoot"

----------------------------------------------------------------------------
(* Failures of the operations on additional entities *)

AdditionalPhases == { "AutoMountFromTable", "InteractiveMountLoop" }

\* the failed mounts of additional entities that the step taken issues, the
\* temporary mounts of list_subvolumes included
FailedAdditionalMounts ==
    { i \in 1..Len(step_calls') :
        /\ step_calls'[i].phase \in AdditionalPhases
        /\ step_calls'[i].op \in { "mount", "zfs-mount" }
        /\ ~step_calls'[i].ok }

\* C21: every failed mount of an additional entity, the temporary mount made
\* to list its subvolumes included, is followed by the skip-and-continue
\* confirmation, so that the process ends on it only after the user declined.
C21_AdditionalFailureOffersSkip ==
    [][\A i \in FailedAdditionalMounts : step_calls'[i].asked]_vars

----------------------------------------------------------------------------
(* What ends the process in the mount planner *)

\* the step taken issued a capability call that failed, or a listing of
\* subvolumes that gave no list
CapabilityFailed ==
    \/ \E i \in 1..Len(step_calls') : ~step_calls'[i].ok
    \/ exit_cause' = "list_subvolumes"

\* C22: the planner never ends the process over the content of the tables: a
\* step of the planner that ends the process holds a capability call that
\* failed (malformed, unresolvable and already mounted entries, a subvolid=
\* that is no number included, are skipped).
C22_TableContentNeverFatal ==
    [][(pc = "fstab" /\ pc' = "exited") => CapabilityFailed]_vars

----------------------------------------------------------------------------
(* import_zfs_pool applied on its own *)

\* C23: import_zfs_pool issues the import and at most one further, forced
\* import, the latter only after the import failed and the user accepted the
\* confirmation; the process ends exactly when the import failed and the
\* forced import was declined or failed.
C23_ImportForcedOnceOnAccept ==
    AppliedTo("import") =>
        /\ Len(m_result[1].calls) \in { 1, 2 }
        /\ m_result[1].calls[1].op = "import"
        /\ m_result[1].calls[1].ok = m_ref[1].import_ok
        /\ Len(m_result[1].calls) = 2 =>
              /\ m_result[1].calls[2].op = "import -f"
              /\ ~m_ref[1].import_ok
              /\ m_ref[1].force
        /\ (m_result[1].status = "exit") <=>
              (~m_ref[1].import_ok /\ (~m_ref[1].force \/ ~m_ref[1].force_ok))
        /\ m_result[1].status \in { "ok", "exit" }

\* the import failed, the user accepted the forced import, and it succeeded
C23_Witness ==
    /\ AppliedTo("import")
    /\ ~m_ref[1].import_ok /\ m_ref[1].force /\ m_ref[1].force_ok
    /\ Len(m_result[1].calls) = 2
    /\ m_result[1].status = "ok"

----------------------------------------------------------------------------
(* The load attempts of the key loop *)

\* one step of the key loop for a dataset whose key is not loaded: one load
\* attempt; a success puts the name in loaded_keys and ends the attempts for
\* the dataset; a failure leaves loaded_keys as it is and either leads to a
\* further attempt for the same dataset (retry accepted) or ends the attempts
\* for it (retry declined); the loop goes on with the datasets behind it in
\* either case
LoadAttemptStep ==
    (pc = "zfs_keys" /\ zfs_queue # << >> /\ Head(zfs_queue).name \notin loaded_keys) =>
        /\ Len(step_calls') = 1
        /\ step_calls'[1].op = "load-key"
        /\ step_calls'[1].id = Head(zfs_queue).name
        /\ pc' = "zfs_keys"
        /\ IF step_calls'[1].ok
           THEN /\ loaded_keys' = loaded_keys \cup { Head(zfs_queue).name }
                /\ zfs_queue' = Tail(zfs_queue)
           ELSE /\ loaded_keys' = loaded_keys
                /\ zfs_queue' \in { zfs_queue, Tail(zfs_queue) }

\* C24: the key of a dataset takes one load attempt and one more per accepted
\* retry, up to the first success or the first declined retry; the key is
\* reported loaded exactly when an attempt succeeded; a key that was not
\* loaded does not end the listing, whose remaining datasets are still
\* handled.
C24_LoadAttemptsUntilSuccessOrDecline == [][LoadAttemptStep]_vars

\* the load for the first dataset failed and was given up, and the loop stands
\* at the second dataset
C24_Witness ==
    /\ pc = "zfs_keys"
    /\ Len(step_calls) = 1
    /\ step_calls[1].op = "load-key" /\ ~step_calls[1].ok
    /\ step_calls[1].id \notin loaded_keys
    /\ zfs_queue # << >>
    /\ Head(zfs_queue).name # step_calls[1].id

----------------------------------------------------------------------------
(* list_zfs_mountable_datasets applied on its own *)

\* the dataset is one the specification keeps: a filesystem (`zfs list -j`
\* prints the type in capitals) whose canmount is not off and whose mount
\* point is not none
KeptBySpec(ds) ==
    /\ ds.dataset_type \in { SFilesystem, SFilesystemUpper }
    /\ ds.properties.canmount # SOff
    /\ ds.properties.mountpoint # SNone

\* C25: list_zfs_mountable_datasets returns exactly the listed datasets that
\* are filesystems, with canmount other than off and a mount point other than
\* none, whatever the key loads came to: a dataset whose key was not loaded
\* is in the result.
C25_ResultIsMountableListed ==
    AppliedTo("list") =>
        m_result[1].datasets = SelectSeq(m_entity[1], KeptBySpec)

\* a mountable dataset whose key was not loaded is in the result
C25_Witness ==
    /\ AppliedTo("list")
    /\ Len(m_entity[1]) = 2
    /\ KeptBySpec(m_entity[1][2])
    /\ IsEncrypted(m_entity[1][2])
    /\ m_entity[1][2].name \notin m_result[1].loaded_keys
    /\ InSeq(m_result[1].datasets, m_entity[1][2])
    /\ ~InSeq(m_result[1].datasets, m_entity[1][1])

----------------------------------------------------------------------------
(* The mount-state flag after mount_zfs_dataset *)

\* C26: when mount_zfs_dataset returns, the flag of the dataset says mounted
\* exactly when it did before the call or `zfs mount` succeeded; after a failed
\* mount the skip is offered only with gracefully_fail set, an accepted skip
\* leaves the dataset as it was, and anything else ends the process.
C26_FlagFollowsMount ==
    AppliedTo("mount") =>
        /\ m_result[1].status \in { "ok", "exit" }
        /\ m_result[1].status = "ok" =>
              (IsMounted(m_result[1].dataset) <=> (IsMounted(m_entity[1]) \/ m_ref[1].ok))
        /\ (~IsMounted(m_entity[1]) /\ ~m_ref[1].ok) =>
              /\ m_result[1].called
              /\ m_result[1].prompted <=> m_ref[1].gracefully_fail
              /\ m_result[1].dataset = m_entity[1]
              /\ (m_result[1].status = "ok") <=> (m_ref[1].gracefully_fail /\ m_ref[1].skip)
        /\ (IsMounted(m_entity[1]) \/ m_ref[1].ok) =>
              /\ m_result[1].status = "ok"
              /\ ~m_result[1].prompted

\* the mount of a dataset that was not mounted failed, the skip was accepted
\* and the dataset still says not mounted
C26_Witness ==
    /\ AppliedTo("mount")
    /\ ~IsMounted(m_entity[1])
    /\ ~m_ref[1].ok /\ m_ref[1].gracefully_fail /\ m_ref[1].skip
    /\ m_result[1].status = "ok"
    /\ ~IsMounted(m_result[1].dataset)

----------------------------------------------------------------------------
(* The precedence of the subvolume options *)

\* the subvolid= options of the entry, in order
SubvolidOpts(entry) == SelectSeq(entry.mount_options, LAMBDA o : IsOption(o, OptSubvolid))

\* the known subvolumes of the id that the first subvolid= option names
KnownOfId(entry, known) ==
    SelectSeq(known, LAMBDA sv :
        OptSubvolid \o FormatNat(sv.subvolume_id) = SubvolidOpts(entry)[1])

\* the known subvolumes of the name that the first subvol= option names, as it
\* stands or behind one path separator
KnownOfName(entry, known) ==
    SelectSeq(known, LAMBDA sv :
        \/ OptSubvol \o sv.subvolume_name = SubvolOpts(entry)[1]
        \/ OptSubvol \o << "/" >> \o sv.subvolume_name = SubvolOpts(entry)[1])

\* what the precedence of the options gives among the known subvolumes
ByPrecedence(entry, known) ==
    IF SubvolidOpts(entry) # << >> THEN KnownOfId(entry, known)
    ELSE IF SubvolOpts(entry) # << >> THEN KnownOfName(entry, known)
    ELSE << known[1] >>

\* the mount calls of the planner for the entry
PlanMountCalls(plan) == SelectSeq(plan.calls, LAMBDA c : c.op = "mount")

\* C27: for a BTRFS entry a subvolid= option decides the subvolume even next
\* to a subvol= option; subvol= decides only without subvolid=; without either
\* the root subvolume, first of the known list, is taken; and when the id or
\* name is not among the known subvolumes the entry is skipped with no mount
\* call.
C27_SubvolumeByPrecedence ==
    (pc = "subvol" /\ m_result # None /\ ~m_result[1].panic) =>
        /\ m_entity[1][1].subvolume_id = RootSubvolId
        /\ IF ByPrecedence(m_ref[1], m_entity[1]) = << >>
           THEN /\ m_result[1].subvolume = None
                /\ m_result[1].plan.status = "next"
                /\ PlanMountCalls(m_result[1].plan) = << >>
           ELSE /\ m_result[1].subvolume = Some(ByPrecedence(m_ref[1], m_entity[1])[1])
                /\ Len(PlanMountCalls(m_result[1].plan)) = 1
                /\ PlanMountCalls(m_result[1].plan)[1].id
                      = SubvolGetId(ByPrecedence(m_ref[1], m_entity[1])[1])

\* an entry with subvol=/@ and subvolid=257 was resolved to the subvolume of
\* id 257, which is not the one named @
C27_Witness ==
    /\ pc = "subvol" /\ m_result # None
    /\ SubvolidOpts(m_ref[1]) # << >>
    /\ SubvolOpts(m_ref[1]) = << OptSubvol \o << "/" >> \o SubvolAt >>
    /\ m_result[1].subvolume # None
    /\ m_result[1].subvolume[1].subvolume_name # SubvolAt
    /\ \E i \in 1..Len(m_entity[1]) : m_entity[1][i].subvolume_name = SubvolAt

----------------------------------------------------------------------------
(* The mapped names of open_device and close_device *)

\* the open and close calls of the step taken
LuksCalls == { i \in 1..Len(step_calls') : step_calls'[i].op \in { "luksOpen", "luksClose" } }

\* the devices the session holds: the listed ones and the opened volumes
HeldDevices == { block_devices[j] : j \in 1..Len(block_devices) } \cup { opened_luks_devices[j] : j \in 1..Len(opened_luks_devices) }

\* the uuids of the held devices of the name name
UuidsOf(name) == { d.uuid : d \in { e \in HeldDevices : e.name = name } }

\* one step: an open or close call names the mapping "luks-" followed by the
\* uuid of its device; a close call is for the opened volume teardown stands
\* at, and the process goes on after it whether it succeeded or not
MappedNameStep ==
    \A i \in LuksCalls :
        /\ UuidsOf(step_calls'[i].dev) # {}
        /\ \A u \in UuidsOf(step_calls'[i].dev) :
              step_calls'[i].id = << "l", "u", "k", "s", "-" >> \o u
        /\ step_calls'[i].op = "luksClose" =>
              /\ step_calls'[i].dev = opened_luks_devices[td_idx].name
              /\ pc' # "exited"
              /\ ~step_calls'[i].ok => sys_luks' = sys_luks

\* C28: close_device names the mapping open_device created, a name made of the
\* uuid of the volume alone, for every volume the session opened; a failed
\* close is logged and teardown goes on.
C28_CloseNamesOpenedMapping == [][MappedNameStep]_vars

\* the close of the mapping of DevLuks failed at teardown and the process went
\* on to its end
C28_Witness ==
    /\ \E i \in LogOf("luksClose") :
          /\ ~td_log[i].ok
          /\ td_log[i].id = MappedName(DevLuks)
    /\ pc \notin { "td_close", "exited" }
    /\ MappedName(DevLuks) \in sys_luks

----------------------------------------------------------------------------
(* mounted_partitions and the mounts that succeeded *)

\* the identities the step taken pushed to mounted_partitions for a block
\* device or a subvolume
NewlyPushed == IF pc = "zfs_mount" THEN {} ELSE { mounted_partitions'[i] : i \in (Len(mounted_partitions) + 1)..Len(mounted_partitions') }

\* the mount calls of the step taken under the root tree that ended as ok says
MountCallsEnded(ok) == { i \in 1..Len(step_calls') : step_calls'[i].op = "mount" /\ StartsWith(step_calls'[i].mp, RootMountPoint) /\ step_calls'[i].ok = ok }

\* one step: an identity is pushed by the step whose mount call for it
\* succeeded, and the identity of a mount call that failed is not in
\* mounted_partitions afterwards
PushFollowsMountStep ==
    /\ \A id \in NewlyPushed : \E i \in MountCallsEnded(TRUE) : step_calls'[i].id = id
    /\ \A i \in MountCallsEnded(FALSE) : ~InSeq(mounted_partitions', step_calls'[i].id)

\* C29: at every point of a session each identity in mounted_partitions is one
\* whose mount call has succeeded, and the identity of a mount that failed is
\* not in it.
C29_PushedOnlyAfterMount == [][PushFollowsMountStep]_vars

\* the same for the additional mounts only, those of the planner and of the
\* interactive loop
C29_AdditionalPushedOnlyAfterMount == [][(pc \in { "fstab", "int_mount" }) => PushFollowsMountStep]_vars

----------------------------------------------------------------------------
(* Encrypted containers and the mount capability *)

\* the names of the listed devices that are encrypted containers
ContainerNames == { d.name : d \in { e \in HeldDevices : e.fs_type = << "c", "r", "y", "p", "t", "o", "_", "L", "U", "K", "S" >> } }

\* the mount calls of the step taken
MountCalls == { i \in 1..Len(step_calls') : step_calls'[i].op = "mount" }

\* C30: no device whose filesystem type is crypto_LUKS is passed to mount; what
\* is selected and mounted after an encrypted volume was opened and the devices
\* were listed again, for the root and in the interactive loop, is no
\* encrypted container.
C30_NoMountOfContainer == [][\A i \in MountCalls : step_calls'[i].dev \notin ContainerNames]_vars

----------------------------------------------------------------------------
(* The opened encrypted volumes *)

\* the names of the opened volumes
OpenedNames == { opened_luks_devices[i].name : i \in 1..Len(opened_luks_devices) }

\* teardown is past its close loop
ClosesDone == pc \in { "td_unload", "td_export", "done" }

\* the close calls teardown issued for the volume of the name name
ClosesOf(name) == { k \in LogOf("luksClose") : td_log[k].dev = name }

\* opened_luks_devices holds no volume twice, no opened volume is in the list
\* offered for selection, and once the close loop of teardown is over it has
\* issued one close call for each opened volume and no other
OpenedOnce ==
    /\ \A i, j \in 1..Len(opened_luks_devices) :
          opened_luks_devices[i] = opened_luks_devices[j] => i = j
    /\ \A i \in 1..Len(block_devices) : block_devices[i].name \notin OpenedNames
    /\ ClosesDone =>
          /\ \A name \in OpenedNames : Cardinality(ClosesOf(name)) = 1
          /\ Cardinality(LogOf("luksClose")) = Len(opened_luks_devices)

\* the open calls of the step taken
OpenCalls == { i \in 1..Len(step_calls') : step_calls'[i].op = "luksOpen" }

\* one step: an open call is for a volume that is not opened yet; the volumes
\* it adds to opened_luks_devices are those of its open calls that succeeded
OpenStep ==
    /\ \A i \in OpenCalls : step_calls'[i].dev \notin OpenedNames
    /\ \A k \in (Len(opened_luks_devices) + 1)..Len(opened_luks_devices') :
          \E i \in OpenCalls : step_calls'[i].ok /\ step_calls'[i].dev = opened_luks_devices'[k].name
    /\ \A i \in OpenCalls :
          ~step_calls'[i].ok => opened_luks_devices' = opened_luks_devices
    /\ SubSeq(opened_luks_devices', 1, Len(opened_luks_devices)) = opened_luks_devices

\* C31: opened_luks_devices holds only volumes whose open call succeeded, each
\* once; an opened container is in no later list offered for selection, so no
\* volume is opened twice, and teardown issues one close call for each.
C31_OpenedOnceClosedOnce == [][OpenStep /\ OpenedOnce']_vars

\* two volumes were opened, the first for the root and the second in the
\* interactive loop, and teardown has closed both
C31_Witness ==
    /\ Len(opened_luks_devices) = 2
    /\ has_luks_on_root
    /\ pc = "done"
    /\ Cardinality(LogOf("luksClose")) = 2

----------------------------------------------------------------------------
(* The identities of devices, subvolumes and datasets *)

\* a second member of the pool of DevZa (a mirror): blkid reports the pool
\* name as the label and the pool guid as the uuid of every member
DevZaMirror == BlockDevice(DevPrefix \o << "x" >>, FsZfs, DevZa.uuid, Some(<< "p", "9" >>), DevZa.label, None)

\* a FAT partition: its uuid is the volume serial number, two groups joined by
\* a dash, here the groups that spell the name of the pool of DevZa
DevVfat == BlockDevice(DevPrefix \o << "e" >>, << "v", "f", "a", "t" >>, DevZa.label[1] \o << "-" >> \o DevZa.label[1], Some(<< "p", "0" >>), None, None)

\* the entities of a session, each with its kind
IdEntities ==
    { [kind |-> "device", v |-> d] : d \in { DevExt, DevBtr, DevLuks, DevLuks2, DevZa, DevZb, DevMap, DevMap2, DevZaMirror, DevVfat } }
    \cup { [kind |-> "subvolume", v |-> BTRFSSubVolume(DevBtr, id, << "@" >>)] : id \in { RootSubvolId, 256, 257 } }
    \cup { [kind |-> "dataset", v |-> ZfsList(d, {})[i]] : d \in { DevZa, DevZb }, i \in 1..2 }

\* get_id of the trait BlockOrSubvolumeID, by the kind of the entity
GetId(e) ==
    IF e.kind = "device" THEN DeviceGetId(e.v)
    ELSE IF e.kind = "subvolume" THEN SubvolGetId(e.v)
    ELSE DatasetGetId(e.v)

InitIdentity ==
    /\ pc = "identity"
    /\ args = [show_btrfs_dot_snapshots |-> FALSE, no_auto_mount |-> FALSE]
    /\ Fresh
    /\ m_entity \in { Some(e) : e \in IdEntities }
    /\ m_ref \in { Some(e) : e \in IdEntities }
    /\ m_result = None

\* get_id of both entities; skipped tells whether the check of main on
\* mounted_partitions skips the second once the first is mounted and pushed
ApplyGetId ==
    /\ pc = "identity"
    /\ m_result = None
    /\ m_result' = Some([first |-> GetId(m_entity[1]), second |-> GetId(m_ref[1]),
                         skipped |-> AlreadyMounted(<< GetId(m_entity[1]) >>, GetId(m_ref[1]))])
    /\ UNCHANGED << pc, exit_cause, progVars, sysVars, ghostVars, m_entity, m_ref >>

NextIdentity == ApplyGetId

SpecIdentity == InitIdentity /\ [][NextIdentity]_vars

\* C32: two different entities never have the same identity, so the check on
\* mounted_partitions does not skip an entity because another one was mounted.
C32_IdentitiesInjective ==
    (pc = "identity" /\ m_result # None /\ m_entity # m_ref) =>
        /\ m_result[1].first # m_result[1].second
        /\ ~m_result[1].skipped

\* the same over the entities that are no member of a pool another entity is a
\* member of and no FAT partition
C32_InjectiveOverPlainEntities ==
    (pc = "identity" /\ m_result # None /\ m_entity # m_ref /\ { m_entity[1].v, m_ref[1].v } \cap { DevZaMirror, DevVfat } = {}) =>
        /\ m_result[1].first # m_result[1].second
        /\ ~m_result[1].skipped

----------------------------------------------------------------------------
(* The planner and the root mount path *)

\* a path without its trailing separators
RECURSIVE TrimEndSeparators(_)
TrimEndSeparators(path) == IF Len(path) > 1 /\ path[Len(path)] = "/" THEN TrimEndSeparators(SubSeq(path, 1, Len(path) - 1)) ELSE path

\* the mount calls of the step taken that the planner issued at the root mount path
PlannerMountsAtRoot == { i \in 1..Len(step_calls') : step_calls'[i].op = "mount" /\ step_calls'[i].phase = "AutoMountFromTable" /\ TrimEndSeparators(step_calls'[i].mp) = RootMountPoint }

\* C33: the planner issues no mount call at the root mount path; an entry of
\* the mount table with the mountpoint "/" is skipped whatever it resolves to.
C33_PlannerNeverMountsAtRoot == [][PlannerMountsAtRoot = {}]_vars

\* the same for the entries that resolve to what was mounted as the root
C33_RootEntryOfTheRootSkipped == [][\A i \in PlannerMountsAtRoot : step_calls'[i].id # RootIdentity]_vars

----------------------------------------------------------------------------
(* Features and dependencies (src/src/features.rs, src/src/depends.rs) *)

\* the struct Depends; features is the set of the flags of the bit set
Depends(command, required, features) == [command |-> command, required |-> required, features |-> features]

\* depends::DEPENDS
DEPENDS ==
    << Depends("lsblk", TRUE, {}),
       Depends("mount", TRUE, {}),
       Depends("umount", TRUE, {}),
       Depends("arch-chroot", TRUE, {}),
       Depends("btrfs", FALSE, {"BTRFS"}),
       Depends("cryptsetup", FALSE, {"LUKS"}),
       Depends("zfs", FALSE, {"ZFS"}),
       Depends("zpool", FALSE, {"ZFS"}) >>

\* the loop of get_enabled_features_from_depends from the dependency i on:
\* found is the set of the commands `which` finds, enabled_features the flags
\* inserted so far. A required command that is not found ends the process.
RECURSIVE EnabledFeaturesFrom(_, _, _)
EnabledFeaturesFrom(i, found, enabled_features) ==
    IF i > Len(DEPENDS) THEN [status |-> "ok", features |-> enabled_features]
    ELSE IF DEPENDS[i].command \notin found
    THEN IF DEPENDS[i].required
         THEN [status |-> "exit", features |-> enabled_features]
         ELSE EnabledFeaturesFrom(i + 1, found, enabled_features)
    ELSE EnabledFeaturesFrom(i + 1, found, enabled_features \cup DEPENDS[i].features)

\* get_enabled_features_from_depends
GetEnabledFeaturesFromDepends(found) == EnabledFeaturesFrom(1, found, {})

\* the commands of DEPENDS
Commands == { DEPENDS[i].command : i \in 1..Len(DEPENDS) }

InitFeatures ==
    /\ pc = "features"
    /\ args = [show_btrfs_dot_snapshots |-> FALSE, no_auto_mount |-> FALSE]
    /\ Fresh
    /\ m_entity \in { Some(found) : found \in SUBSET Commands }
    /\ m_ref = None
    /\ m_result = None

ApplyFeatures ==
    /\ pc = "features"
    /\ m_result = None
    /\ m_result' = Some(GetEnabledFeaturesFromDepends(m_entity[1]))
    /\ UNCHANGED << pc, exit_cause, progVars, sysVars, ghostVars, m_entity, m_ref >>

NextFeatures == ApplyFeatures

SpecFeatures == InitFeatures /\ [][NextFeatures]_vars

\* the commands that provide the feature f
Providers(f) == { DEPENDS[i].command : i \in { j \in 1..Len(DEPENDS) : f \in DEPENDS[j].features } }

\* the required commands
Required == { DEPENDS[i].command : i \in { j \in 1..Len(DEPENDS) : DEPENDS[j].required } }

\* C34: a feature is enabled only if every command that provides it is found
\* (ZFS is not enabled with zfs found and zpool missing, or the reverse), and a
\* required command that is not found ends the process.
C34_FeatureNeedsEveryBinary ==
    (pc = "features" /\ m_result # None) =>
        /\ m_result[1].status = "exit" <=> ~(Required \subseteq m_entity[1])
        /\ m_result[1].status = "ok" =>
              \A f \in m_result[1].features : Providers(f) \subseteq m_entity[1]

\* what holds instead: a feature is enabled if and only if one of the commands
\* that provide it is found, and a required command that is not found ends
\* the process
C34_FeatureNeedsSomeBinary ==
    (pc = "features" /\ m_result # None) =>
        /\ m_result[1].status = "exit" <=> ~(Required \subseteq m_entity[1])
        /\ m_result[1].status = "ok" =>
              \A f \in { "BTRFS", "LUKS", "ZFS" } :
                 f \in m_result[1].features <=> Providers(f) \cap m_entity[1] # {}

=============================================================================
